---- MODULE Spec2Model ----
(***************************************************************************)
(* Metropolis / OughtToSee: the itinerary backend (generate, export,       *)
(* recalculate over the in-memory itineraries_store) and the mobile        *)
(* client's screens that talk to it (Loading, Itinerary, Map, Budget,      *)
(* DatePicker).                                                            *)
(*                                                                         *)
(* Specifications:                                                         *)
(*   SpecBackend  the HTTP handlers under arbitrary, interleaved requests  *)
(*   Spec         the client's navigation stack driving the same handlers  *)
(*   SpecWizard   the input screens building the generate request          *)
(*   SpecMap      the map screen: geocode, route, polyline                 *)
(***************************************************************************)
EXTENDS Integers, Sequences, FiniteSets, TLC

VARIABLES
    \* ---- backend (main.py)
    itineraries_store,  \* itinerary_id -> {"itinerary", "date", "city"}
    requests_store,     \* itinerary_id -> originating request (kept for recalculation)
    uuidPool,           \* the tokens uuid4 has not returned yet
    http,               \* every request sent, with the handler's position and its response
    planCalls,          \* number of synthesizer (plan_itinerary) invocations
    \* ---- client navigation (React Navigation native stack)
    stack,              \* the mounted screens, bottom first; the last one is focused
    lastRecalc,         \* itinerary_id of the most recent recalculation response handled
    \* ---- input screens
    wz,                 \* Budget / DatePicker / Preferences / Loading request building
    \* ---- map screen
    mp                  \* MapScreen state

backendVars == <<itineraries_store, requests_store, uuidPool, http, planCalls>>
clientVars == <<stack, lastRecalc>>
vars == <<itineraries_store, requests_store, uuidPool, http, planCalls,
          stack, lastRecalc, wz, mp>>

(***************************************************************************)
(* Bounds of the model.                                                    *)
(***************************************************************************)
\* HTTP requests sent to the backend in one run of SpecBackend
MaxRequests == 2
\* HTTP requests the app sends in one run of Spec
MaxClientRequests == 4

\* itinerary identifiers a request may name
Ids == 1..MaxRequests

(***************************************************************************)
(* Data: ItineraryItem, SearchRequest                                      *)
(***************************************************************************)
RequiredFields == {"title", "start_time", "end_time", "location", "description"}

\* class ItineraryItem(BaseModel): five required fields, two with defaults.
\* Applied to a dict of the synthesizer; a missing required field raises.
ItineraryItemValid(item) == RequiredFields \subseteq DOMAIN item

ItineraryItem(item) ==
    [title          |-> item.title,
     start_time     |-> item.start_time,
     end_time       |-> item.end_time,
     location       |-> item.location,
     description    |-> item.description,
     ticket_info    |-> IF "ticket_info" \in DOMAIN item THEN item.ticket_info ELSE "",
     estimated_cost |-> IF "estimated_cost" \in DOMAIN item THEN item.estimated_cost ELSE 0]

\* The dicts the synthesizer may emit: complete, relying on defaults, malformed.
RawConcert ==
    [title |-> "Concert", start_time |-> "10:00", end_time |-> "11:00",
     location |-> "1 Main St", description |-> "live", ticket_info |-> "door",
     estimated_cost |-> 20]
RawMuseum ==
    [title |-> "Museum", start_time |-> "13:00", end_time |-> "15:00",
     location |-> "2 Park Ave", description |-> "art", ticket_info |-> "",
     estimated_cost |-> 15]
RawLunch ==
    [title |-> "Lunch", start_time |-> "12:00", end_time |-> "13:00",
     location |-> "3 Food Ct", description |-> "meal"]
RawNoTitle ==
    [start_time |-> "16:00", end_time |-> "17:00",
     location |-> "4 Nowhere", description |-> "?", estimated_cost |-> 5]

\* What gemini_service.plan_itinerary may return: a list of such dicts, in the
\* order the model chose; some well formed, one with a malformed item.
PlanOutputs ==
    {<<RawConcert, RawLunch>>, <<RawLunch, RawMuseum>>, <<RawMuseum, RawNoTitle>>}

\* What serpapi_service.search_events may return: a list of raw events, maybe empty.
SearchResults == {<<>>, <<"ev1", "ev2">>}

\* sum(e.estimated_cost for e in itinerary)
RECURSIVE SumCost_dropLast(_)
SumCost_dropLast(s) ==
    IF Len(s) <= 1 THEN 0 ELSE Head(s).estimated_cost + SumCost_dropLast(Tail(s))
RECURSIVE SumCost(_)
SumCost(s) == IF s = <<>> THEN 0 ELSE Head(s).estimated_cost + SumCost(Tail(s))


\* str(uuid.uuid4()): a random 128-bit token. The model takes the generator at
\* its word: a call returns a token that no earlier call returned. Tokens are
\* interchangeable, so of the unused ones the least stands for any.
uuid4_reused(pool) == {CHOOSE t \in pool \cup DOMAIN itineraries_store : TRUE}
uuid4(pool) == {CHOOSE t \in pool : \A u \in pool : t <= u}

(***************************************************************************)
(* HTTP plumbing.  http[i] is the i-th request sent; the handler's         *)
(* position is pc: "recv" (accepted, nothing awaited yet), "plan" (the     *)
(* search returned, the synthesizer is being awaited), "ext" (served by a  *)
(* service outside this model), "done" (response written, not yet read by  *)
(* the sender), "read".  status is 0 until the response is written.        *)
(***************************************************************************)
NoResp == [detail |-> "pending"]
NoCtx == [sender |-> "other"]

\* ctx is what the sender's closure holds when the response comes back.
Request(from, path, body, ctx) ==
    [from |-> from, path |-> path, body |-> body, ctx |-> ctx, pc |-> "recv",
     events |-> <<>>, planned |-> <<>>, status |-> 0, resp |-> NoResp]

\* raise HTTPException(status_code, detail) inside the handler's try block:
\* "except HTTPException: raise" lets it through unchanged.
HTTPException_caughtAsException(status_code, detail) ==
    [status |-> 500, resp |-> [detail |-> detail]]
HTTPException(status_code, detail) ==
    [status |-> status_code, resp |-> [detail |-> detail]]

\* "except Exception as e: raise HTTPException(status_code=500, detail=str(e))"
InternalError(detail) == [status |-> 500, resp |-> [detail |-> detail]]

Respond(i, r) ==
    http' = [http EXCEPT ![i].pc = "done", ![i].status = r.status, ![i].resp = r.resp]

\* itinerary = [ItineraryItem(**item) for item in itinerary_data]
AllValid(data) == \A k \in DOMAIN data : ItineraryItemValid(data[k])
Itinerary(data) == [k \in DOMAIN data |-> ItineraryItem(data[k])]

\* the comprehension, were it to skip the items that do not validate
ParseItinerary_partial(data) ==
    [ok |-> TRUE, items |-> Itinerary(SelectSeq(data, ItineraryItemValid))]

\* the comprehension as a whole: the first item that does not validate raises
\* ValidationError and no list is built
ParseItinerary(data) ==
    IF AllValid(data) THEN [ok |-> TRUE, items |-> Itinerary(data)]
    ELSE [ok |-> FALSE, items |-> <<>>]

\* itineraries_store[itinerary_id] = {"itinerary", "date", "city"}
StoredDoc(itinerary, request) ==
    [itinerary |-> itinerary, date |-> request.date, city |-> request.city]

\* ItineraryResponse(...)
ItineraryResponse(itinerary_id, itinerary, request) ==
    [status |-> 200,
     resp |-> [itinerary_id |-> itinerary_id,
               events       |-> itinerary,
               total_cost   |-> SumCost(itinerary),
               summary      |-> <<"Your ", request.city, " adventure">>,
               date         |-> request.date,
               city         |-> request.city]]

(***************************************************************************)
(* POST /api/generate-itinerary                                            *)
(***************************************************************************)
\* Step 1: await search_events; "if not events: raise HTTPException(404)".
GenerateSearch(i) ==
    /\ http[i].path = "generate-itinerary"
    /\ http[i].pc = "recv"
    /\ \E events \in SearchResults :
         IF events = <<>>
         THEN Respond(i, HTTPException(404, "No events found"))
         ELSE http' = [http EXCEPT ![i].pc = "plan", ![i].events = events]
    /\ UNCHANGED <<itineraries_store, requests_store, uuidPool, planCalls>>

\* Step 2: await plan_itinerary, validate, mint the id, store, respond.
GeneratePlan(i) ==
    /\ http[i].path = "generate-itinerary"
    /\ http[i].pc = "plan"
    /\ planCalls' = planCalls + 1
    /\ \E itinerary_data \in PlanOutputs :
         IF ~ParseItinerary(itinerary_data).ok
         THEN /\ http' = [http EXCEPT ![i].pc = "done", ![i].status = 500,
                                      ![i].planned = itinerary_data,
                                      ![i].resp = InternalError("validation error").resp]
              /\ UNCHANGED <<itineraries_store, requests_store, uuidPool>>
         ELSE \E itinerary_id \in uuid4(uuidPool) :
                LET itinerary == ParseItinerary(itinerary_data).items
                    r == ItineraryResponse(itinerary_id, itinerary, http[i].body)
                IN  /\ uuidPool' = uuidPool \ {itinerary_id}
                    /\ itineraries_store' =
                         (itinerary_id :> StoredDoc(itinerary, http[i].body))
                             @@ itineraries_store
                    /\ requests_store' = (itinerary_id :> http[i].body) @@ requests_store
                    /\ http' = [http EXCEPT ![i].pc = "done", ![i].status = r.status,
                                            ![i].planned = itinerary_data,
                                            ![i].resp = r.resp]

(***************************************************************************)
(* GET /api/export-ics/{itinerary_id}                                      *)
(***************************************************************************)
\* The handler without its membership test: the dict lookup raises KeyError,
\* which FastAPI answers with 500.
export_ics_unchecked(store, itinerary_id) ==
    IF itinerary_id \in DOMAIN store
    THEN [status |-> 200,
          resp |-> [components |-> store[itinerary_id].itinerary,
                    filename |-> <<"metropolis_", store[itinerary_id].city, "_",
                                   store[itinerary_id].date, ".ics">>]]
    ELSE [status |-> 500, resp |-> [detail |-> "KeyError"]]
export_ics(store, itinerary_id) ==
    IF itinerary_id \notin DOMAIN store
    THEN [status |-> 404, resp |-> [detail |-> "Itinerary not found"]]
    ELSE [status |-> 200,
          resp |-> [components |-> store[itinerary_id].itinerary,
                    filename |-> <<"metropolis_", store[itinerary_id].city, "_",
                                   store[itinerary_id].date, ".ics">>]]

ExportIcs(i) ==
    /\ http[i].path = "export-ics"
    /\ http[i].pc = "recv"
    /\ Respond(i, export_ics(itineraries_store, http[i].body.itinerary_id))
    /\ UNCHANGED <<itineraries_store, requests_store, uuidPool, planCalls>>

(***************************************************************************)
(* POST /api/recalculate-itinerary                                         *)
(* main.py's handler: look the document up, search and plan again with the *)
(* originating request, the additional prompt appended to its preferences  *)
(* and the excluded titles kept out, store the replacement, answer in the  *)
(* shape of generate with the identifier to use from now on.               *)
(***************************************************************************)
\* original preferences with the additional prompt appended
MergePreferences(preferences, additional_prompt) ==
    IF additional_prompt = "" THEN preferences
    ELSE preferences \o <<additional_prompt>>

ReplanRequest(original, additional_prompt) ==
    [original EXCEPT !.preferences = MergePreferences(original.preferences, additional_prompt)]

Titles(data) == {data[k].title : k \in {j \in DOMAIN data : "title" \in DOMAIN data[j]}}
Range(f) == {f[k] : k \in DOMAIN f}

\* the synthesizer told to keep the excluded titles out
PlanOutputsExcluding(excluded_events) ==
    {d \in PlanOutputs : Titles(d) \cap Range(excluded_events) = {}}

\* the identifier of the replacement: the old one, or a fresh one
ReplacementIds(itinerary_id, pool) == {itinerary_id} \cup uuid4(pool)

RecalculateResponse(itinerary_id, itinerary, request) ==
    [status |-> 200,
     resp |-> [itinerary_id |-> itinerary_id,
               events       |-> itinerary,
               total_cost   |-> SumCost(itinerary),
               summary      |-> <<"Your ", request.city, " adventure">>,
               dates        |-> <<request.date>>,
               city         |-> request.city]]

RecalculateSearch(i) ==
    /\ http[i].path = "recalculate-itinerary"
    /\ http[i].pc = "recv"
    /\ IF http[i].body.itinerary_id \notin DOMAIN itineraries_store
       THEN Respond(i, HTTPException(404, "Itinerary not found"))
       ELSE \E events \in SearchResults :
              IF events = <<>>
              THEN Respond(i, HTTPException(404, "No events found"))
              ELSE http' = [http EXCEPT ![i].pc = "plan", ![i].events = events]
    /\ UNCHANGED <<itineraries_store, requests_store, uuidPool, planCalls>>

RecalculatePlan(i) ==
    /\ http[i].path = "recalculate-itinerary"
    /\ http[i].pc = "plan"
    /\ planCalls' = planCalls + 1
    /\ LET old == http[i].body.itinerary_id
           request == ReplanRequest(requests_store[old], http[i].body.additional_prompt)
       IN \E itinerary_data \in PlanOutputsExcluding(http[i].body.excluded_events) :
            IF ~AllValid(itinerary_data)
            THEN /\ http' = [http EXCEPT ![i].pc = "done", ![i].status = 500,
                                         ![i].planned = itinerary_data,
                                         ![i].resp = InternalError("validation error").resp]
                 /\ UNCHANGED <<itineraries_store, requests_store, uuidPool>>
            ELSE \E itinerary_id \in ReplacementIds(old, uuidPool) :
                   LET itinerary == Itinerary(itinerary_data)
                       r == RecalculateResponse(itinerary_id, itinerary, request)
                   IN  /\ uuidPool' = uuidPool \ {itinerary_id}
                       /\ itineraries_store' =
                            (itinerary_id :> StoredDoc(itinerary, request))
                                @@ itineraries_store
                       /\ requests_store' = (itinerary_id :> request) @@ requests_store
                       /\ http' = [http EXCEPT ![i].pc = "done", ![i].status = r.status,
                                               ![i].planned = itinerary_data,
                                               ![i].resp = r.resp]

(***************************************************************************)
(* SpecBackend: the handlers under requests of any client, in any order.   *)
(***************************************************************************)
SearchRequests ==
    {[city |-> "Providence", state |-> "RI", date |-> "2025-04-10",
      budget |-> "$1-$20", preferences |-> <<"music">>],
     [city |-> "Boston", state |-> "MA", date |-> "2025-04-11",
      budget |-> "$0", preferences |-> <<>>]}

RecalculateBodies ==
    {[itinerary_id |-> id, additional_prompt |-> e[1], excluded_events |-> e[2]] :
        id \in Ids, e \in {<<"", <<>>>>, <<"outdoor", <<"Concert">>>>}}

NoScreens == <<>>
IdleWizard == [screen |-> "none"]
IdleMap == [screen |-> "none"]

InitBackend(tokens) ==
    /\ itineraries_store = <<>>
    /\ requests_store = <<>>
    /\ uuidPool = tokens
    /\ http = <<>>
    /\ planCalls = 0

SubmitGenerate ==
    /\ Len(http) < MaxRequests
    /\ \E body \in SearchRequests :
         http' = Append(http, Request(0, "generate-itinerary", body, NoCtx))
    /\ UNCHANGED <<itineraries_store, requests_store, uuidPool, planCalls>>

SubmitExport ==
    /\ Len(http) < MaxRequests
    /\ \E id \in Ids :
         http' = Append(http, Request(0, "export-ics", [itinerary_id |-> id], NoCtx))
    /\ UNCHANGED <<itineraries_store, requests_store, uuidPool, planCalls>>

SubmitRecalculate ==
    /\ Len(http) < MaxRequests
    /\ \E body \in RecalculateBodies :
         http' = Append(http, Request(0, "recalculate-itinerary", body, NoCtx))
    /\ UNCHANGED <<itineraries_store, requests_store, uuidPool, planCalls>>

InitB ==
    /\ InitBackend(Ids)
    /\ stack = NoScreens /\ lastRecalc = 0
    /\ wz = IdleWizard /\ mp = IdleMap

NextB ==
    \/ SubmitGenerate /\ UNCHANGED <<clientVars, wz, mp>>
    \/ SubmitExport /\ UNCHANGED <<clientVars, wz, mp>>
    \/ SubmitRecalculate /\ UNCHANGED <<clientVars, wz, mp>>
    \/ \E i \in DOMAIN http : GenerateSearch(i) /\ UNCHANGED <<clientVars, wz, mp>>
    \/ \E i \in DOMAIN http : GeneratePlan(i) /\ UNCHANGED <<clientVars, wz, mp>>
    \/ \E i \in DOMAIN http : ExportIcs(i) /\ UNCHANGED <<clientVars, wz, mp>>
    \/ \E i \in DOMAIN http : RecalculateSearch(i) /\ UNCHANGED <<clientVars, wz, mp>>
    \/ \E i \in DOMAIN http : RecalculatePlan(i) /\ UNCHANGED <<clientVars, wz, mp>>

SpecBackend == InitB /\ [][NextB]_vars

(***************************************************************************)
(* The calendar agent.  export_calendar encodes one stored document: one   *)
(* VEVENT per itinerary item, its uid a fresh uuid4.  The iCalendar text   *)
(* is kept as the list of its components and properties, which to_ical     *)
(* writes out in order.                                                    *)
(***************************************************************************)
MaxExports == 2
MaxComponents == 3

\* datetime.strptime(text, "%H:%M"): the clock times that parse; any other
\* text raises ValueError
ClockTimes ==
    ("10:00" :> [hour |-> 10, minute |-> 0]) @@
    ("11:00" :> [hour |-> 11, minute |-> 0]) @@
    ("12:00" :> [hour |-> 12, minute |-> 0]) @@
    ("13:00" :> [hour |-> 13, minute |-> 0]) @@
    ("15:00" :> [hour |-> 15, minute |-> 0])

strptime_parses(text) == text \in DOMAIN ClockTimes

\* base_date.replace(hour=..., minute=...)
DateTime(date, text) ==
    [date |-> date, hour |-> ClockTimes[text].hour, minute |-> ClockTimes[text].minute]

\* an item whose times the agent cannot parse
RawEvening ==
    [title |-> "Show", start_time |-> "7pm", end_time |-> "late",
     location |-> "5 Stage Rd", description |-> "play", ticket_info |-> "",
     estimated_cost |-> 30]

CalendarItems ==
    {ItineraryItem(RawConcert), ItineraryItem(RawMuseum),
     ItineraryItem(RawLunch), ItineraryItem(RawEvening)}

RECURSIVE SeqsUpTo(_, _)
SeqsUpTo(S, n) ==
    IF n = 0 THEN {<<>>}
    ELSE LET shorter == SeqsUpTo(S, n - 1)
         IN shorter \cup {Append(s, x) : s \in {t \in shorter : Len(t) = n - 1}, x \in S}

CalendarDocuments ==
    {StoredDoc(itinerary, [date |-> "2025-04-10", city |-> "Providence"]) :
        itinerary \in SeqsUpTo(CalendarItems, MaxComponents)}

\* the uids of one encoding, were uuid4 called once before the loop
ComponentUids_single(pool, n) ==
    [k \in 1..n |-> CHOOSE t \in uuid4(pool) : TRUE]

\* str(uuid.uuid4()) in each pass of the loop: n successive draws
RECURSIVE ComponentUids(_, _)
ComponentUids(pool, n) ==
    IF n = 0 THEN <<>>
    ELSE LET t == CHOOSE x \in uuid4(pool) : TRUE
         IN <<t>> \o ComponentUids(pool \ {t}, n - 1)

\* the Event built in one pass of the loop
VEvent(item, date, uid) ==
    [summary     |-> item.title,
     description |-> item.description,
     location    |-> item.location,
     dtstart     |-> DateTime(date, item.start_time),
     dtend       |-> DateTime(date, item.end_time),
     uid         |-> uid]

\* export_calendar(ctx, sender, msg): the CalendarExportResponse and the uids
\* drawn, or the raised ValueError
export_calendar(msg, pool) ==
    LET n == Len(msg.itinerary)
        uids == ComponentUids(pool, n)
    IN IF \E k \in 1..n : ~ strptime_parses(msg.itinerary[k].start_time)
                          \/ ~ strptime_parses(msg.itinerary[k].end_time)
       THEN [raised |-> "ValueError"]
       ELSE [raised |-> "",
             ics_content |->
                 [prodid |-> "-//Metropolis//Itinerary Planner//EN",
                  version |-> "2.0",
                  calscale |-> "GREGORIAN",
                  components |->
                      [k \in 1..n |-> VEvent(msg.itinerary[k], msg.date, uids[k])]],
             filename |-> <<"metropolis_itinerary_", msg.date, ".ics">>,
             event_count |-> n,
             drawn |-> {uids[k] : k \in 1..n}]

Encoded(i) == http[i].out.raised = ""

\* one run of the agent's handler on the stored document itinerary_id
ExportCalendar ==
    /\ Len(http) < MaxExports
    /\ \E itinerary_id \in DOMAIN itineraries_store :
          LET data == itineraries_store[itinerary_id]
              msg == [itinerary |-> data.itinerary, date |-> data.date]
              out == export_calendar(msg, uuidPool)
          IN /\ http' = Append(http, [itinerary_id |-> itinerary_id, out |-> out])
             /\ uuidPool' = IF out.raised = "" THEN uuidPool \ out.drawn ELSE uuidPool
    /\ UNCHANGED <<itineraries_store, requests_store, planCalls>>

InitCalendar ==
    /\ \E doc \in CalendarDocuments : itineraries_store = (1 :> doc)
    /\ requests_store = <<>>
    /\ uuidPool = 2..(1 + MaxExports * MaxComponents)
    /\ http = <<>>
    /\ planCalls = 0
    /\ stack = NoScreens /\ lastRecalc = 0
    /\ wz = IdleWizard /\ mp = IdleMap

NextCalendar ==
    \/ ExportCalendar /\ UNCHANGED <<clientVars, wz, mp>>

SpecCalendar == InitCalendar /\ [][NextCalendar]_vars

(***************************************************************************)
(* The mobile client.  JavaScript values that may be undefined, or of more *)
(* than one type, carry their type.  A text is the list of its fragments   *)
(* ('' is the empty list); a city string is the list of its parts between *)
(* commas.                                                                 *)
(***************************************************************************)
Undefined == [type |-> "undefined"]
Num(n) == [type |-> "number", value |-> n]
Arr(items) == [type |-> "array", items |-> items]
Txt(fragments) == [type |-> "string", fragments |-> fragments]
CityObject(name, state) == [type |-> "object", name |-> name, state |-> state]
CityString(parts) == [type |-> "string", parts |-> parts]

(***************************************************************************)
(* A date string is the sequence of its UTF-16 code units, so that the     *)
(* formatting and the sort of DatePickerScreen are computed, not assumed.  *)
(***************************************************************************)
Digit0 == 48
Hyphen == 45

RECURSIVE String(_)
\* String(n) of a non-negative integer
String(n) == IF n < 10 THEN <<Digit0 + n>> ELSE String(n \div 10) \o <<Digit0 + (n % 10)>>

RECURSIVE padStart(_, _, _)
\* s.padStart(targetLength, padString) with a one-character padString
padStart(s, targetLength, padUnit) ==
    IF Len(s) >= targetLength THEN s ELSE padStart(<<padUnit>> \o s, targetLength, padUnit)

\* the variant without the zero padding
createDateString_unpadded(year, month, day) ==
    String(year) \o <<Hyphen>> \o String(month + 1) \o <<Hyphen>> \o String(day)

\* DatePickerScreen.createDateString; month is 0-based
createDateString(year, month, day) ==
    String(year) \o <<Hyphen>> \o padStart(String(month + 1), 2, Digit0)
                 \o <<Hyphen>> \o padStart(String(day), 2, Digit0)

RECURSIVE StringLess(_, _)
\* a < b for strings: by code units, a proper prefix first
StringLess(a, b) ==
    IF b = <<>> THEN FALSE
    ELSE IF a = <<>> THEN TRUE
    ELSE IF Head(a) # Head(b) THEN Head(a) < Head(b)
    ELSE StringLess(Tail(a), Tail(b))

RECURSIVE Insert(_, _)
Insert(x, sorted) ==
    IF sorted = <<>> THEN <<x>>
    ELSE IF StringLess(x, Head(sorted)) THEN <<x>> \o sorted
    ELSE <<Head(sorted)>> \o Insert(x, Tail(sorted))

RECURSIVE sort(_)
\* Array.prototype.sort() without a comparator, on strings
sort(array) == IF array = <<>> THEN <<>> ELSE Insert(Head(array), sort(Tail(array)))

\* a Set of strings in insertion order: has, delete, add
SetHas(set, x) == \E k \in DOMAIN set : set[k] = x
RECURSIVE SetDelete(_, _)
SetDelete(set, x) ==
    IF set = <<>> THEN <<>>
    ELSE IF Head(set) = x THEN Tail(set)
    ELSE <<Head(set)>> \o SetDelete(Tail(set), x)
SetAdd(set, x) == IF SetHas(set, x) THEN set ELSE Append(set, x)

\* the day the app runs: new Date()
TodayYear == 2025
TodayMonth == 11
TodayDay == 10

\* new Date().toISOString().split('T')[0]
Today == createDateString(TodayYear, TodayMonth, TodayDay)

\* !city
CityFalsy(city) ==
    \/ city.type = "undefined"
    \/ city.type = "string" /\ city.parts = <<"">>

\* LoadingScreen.getCityName
getCityName(city) ==
    IF CityFalsy(city) THEN "San Francisco"
    ELSE IF city.type = "object" /\ city.name # "" THEN city.name
    ELSE IF city.type = "string" THEN Head(city.parts)
    ELSE "San Francisco"

\* LoadingScreen.getCityState
getCityState(city) ==
    IF CityFalsy(city) THEN "CA"
    ELSE IF city.type = "object" /\ city.state # "" THEN city.state
    ELSE ""

\* LoadingScreen.formatBudget
formatBudget(budget) ==
    IF budget.type = "undefined" \/ budget.value = 0 THEN "$0"
    ELSE IF budget.value <= 20 THEN "$1-$20"
    ELSE IF budget.value <= 50 THEN "$20-$50"
    ELSE "$50+"

\* const date = dates && dates.length > 0 ? dates[0] : today
FirstDate(dates) ==
    IF dates.type = "array" /\ Len(dates.items) > 0 THEN dates.items[1] ELSE Today

\* preferences || ''
PreferencesOrEmpty(preferences) ==
    IF preferences.type = "undefined" THEN <<>> ELSE preferences.fragments

\* the JSON body of LoadingScreen.generateItinerary
GenerateBody(params) ==
    [city        |-> getCityName(params.city),
     state       |-> getCityState(params.city),
     date        |-> FirstDate(params.dates),
     budget      |-> formatBudget(params.budget),
     preferences |-> PreferencesOrEmpty(params.preferences)]

(***************************************************************************)
(* React Navigation's native stack, as the screens use it.  A helper of a  *)
(* screen's navigation prop acts on the focused route, the top of stack.   *)
(***************************************************************************)
Top == stack[Len(stack)]
Screen(name, key, params, st) == [name |-> name, key |-> key, params |-> params, st |-> st]

\* navigation.navigate(name, params) to a screen that is not in the stack
Navigate(stk, screen) == Append(stk, screen)
\* navigation.replace(name, params)
Replace(stk, screen) == [stk EXCEPT ![Len(stk)] = screen]
\* navigation.goBack()
GoBack(stk) == IF Len(stk) > 1 THEN SubSeq(stk, 1, Len(stk) - 1) ELSE stk
\* navigation.popToTop()
PopToTop(stk) == <<stk[1]>>

\* a route key is an opaque unique string; of the keys that no mounted screen
\* and no request in flight refers to, the least stands for any
KeysInUse == {stack[k].key : k \in DOMAIN stack} \cup {http[i].from : i \in DOMAIN http}
FreshKey == CHOOSE key \in 1..(Cardinality(KeysInUse) + 1) :
                /\ key \notin KeysInUse
                /\ \A other \in 1..(key - 1) : other \in KeysInUse

Mounted(key) == \E k \in DOMAIN stack : stack[k].key = key
\* setState of the screen instance `key`; a no-op once it is unmounted
SetState(stk, key, st) ==
    [k \in DOMAIN stk |-> IF stk[k].key = key THEN [stk[k] EXCEPT !.st = st] ELSE stk[k]]

LoadingScreen(key, params) ==
    Screen("Loading", key, params, [error |-> "", isLoading |-> TRUE])

\* ItineraryScreen: useState(itinerary), useState(false), useState(''), useState([])
ItineraryScreen(key, params) ==
    Screen("Itinerary", key, params,
           [events |-> params.itinerary, showRecalculateInput |-> FALSE,
            additionalPrompt |-> "", removedEventTitles |-> <<>>, pressed |-> <<>>])

MapRoute(key, params) == Screen("Map", key, params, [loading |-> TRUE])

\* the screens below Loading: Welcome .. AdditionalPreferences
WizardRoot == Screen("Wizard", 0, [step |-> "AdditionalPreferences"], [idle |-> TRUE])

\* what the input screens hand to Loading
WizardParams ==
    {[city |-> CityObject("Providence", "RI"), budget |-> Num(25),
      dates |-> Arr(<<createDateString(2025, 11, 10), createDateString(2025, 11, 11)>>), preferences |-> Txt(<<"music">>),
      isRecalculating |-> FALSE]}

CanSend(n) == Len(http) + n <= MaxClientRequests

\* AdditionalPreferences: navigation.navigate('Loading', {city, budget, dates,
\* preferences}); Loading's mount effect calls generateItinerary.
StartPlanning ==
    /\ Top.name = "Wizard"
    /\ CanSend(1)
    /\ \E params \in WizardParams :
         /\ stack' = Navigate(stack, LoadingScreen(FreshKey, params))
         /\ http' = Append(http, Request(FreshKey, "generate-itinerary",
                                         GenerateBody(params), [lastRecalc |-> lastRecalc]))
    /\ UNCHANGED <<itineraries_store, requests_store, uuidPool, planCalls, lastRecalc>>

\* navigation.replace('Itinerary', {...}) of LoadingScreen.generateItinerary
GeneratedItineraryParams(data, cityName, date) ==
    [itinerary   |-> data.events,
     itineraryId |-> data.itinerary_id,
     totalCost   |-> data.total_cost,
     city        |-> CityString(<<cityName>>),
     dates       |-> Undefined,   \* no `dates` key is passed
     date        |-> date,
     summary     |-> data.summary]

\* the catch block, were it to leave the error unset
ErrorMessage_unset(resp) == ""

\* errorData.detail || 'Failed to generate itinerary'
ErrorMessage(resp) ==
    IF "detail" \in DOMAIN resp /\ resp.detail # "" THEN resp.detail
    ELSE "Failed to generate itinerary"

\* what is left of a request once the client has read its response: its slot
Consumed == [Request(0, "consumed", [itinerary_id |-> 0], NoCtx) EXCEPT !.pc = "read"]

\* LoadingScreen.generateItinerary after "await fetch": the response of the
\* request the instance http[i].from sent has arrived.
GenerateResponse(i) ==
    /\ http[i].path = "generate-itinerary"
    /\ http[i].from # 0
    /\ http[i].pc = "done"
    /\ http' = [http EXCEPT ![i] = Consumed]
    /\ IF http[i].status = 200
       THEN stack' = Replace(stack,
                   ItineraryScreen(FreshKey,
                       GeneratedItineraryParams(http[i].resp, http[i].body.city,
                                                http[i].body.date)))
       ELSE stack' = SetState(stack, http[i].from,
                   [error |-> ErrorMessage(http[i].resp), isLoading |-> FALSE])
    /\ UNCHANGED <<itineraries_store, requests_store, uuidPool, planCalls, lastRecalc>>

\* LoadingScreen.handleRetry: generateItinerary again
handleRetry ==
    /\ Top.name = "Loading"
    /\ Top.st.error # ""
    /\ CanSend(1)
    /\ stack' = SetState(stack, Top.key, [error |-> "", isLoading |-> TRUE])
    /\ http' = Append(http, Request(Top.key, "generate-itinerary",
                                    GenerateBody(Top.params), [lastRecalc |-> lastRecalc]))
    /\ UNCHANGED <<itineraries_store, requests_store, uuidPool, planCalls, lastRecalc>>

\* LoadingScreen.handleGoBack
handleGoBack ==
    /\ Top.name = "Loading"
    /\ Top.st.error # ""
    /\ stack' = GoBack(stack)
    /\ UNCHANGED <<backendVars, lastRecalc>>

(***************************************************************************)
(* ItineraryScreen                                                         *)
(***************************************************************************)
AdditionalPrompts == {"outdoor"}

\* prevEvents.filter((_, index) => index !== indexToRemove)
RemoveAt(events, indexToRemove) ==
    [k \in 1..(Len(events) - 1) |->
        IF k < indexToRemove THEN events[k] ELSE events[k + 1]]

\* events.findIndex(e => e.title === event.title && e.start_time === event.start_time
\*                       && e.date === event.date)
globalIndex(events, event) ==
    CHOOSE k \in DOMAIN events :
        /\ events[k].title = event.title
        /\ events[k].start_time = event.start_time
        /\ \A j \in 1..(k - 1) :
              ~(events[j].title = event.title /\ events[j].start_time = event.start_time)

\* the keep-only-the-last variant of the removed-titles update
RemovedTitles_onlyLast(prev, removedEvent) == <<removedEvent.title>>

\* setRemovedEventTitles(prev => [...prev, removedEvent.title])
RemovedTitles(prev, removedEvent) == Append(prev, removedEvent.title)

\* the remove button, were it to take the entry out of the stored document too
handleRemoveEvent_stored ==
    /\ Top.name = "Itinerary"
    /\ \E c \in DOMAIN Top.st.events :
         LET events == Top.st.events
             indexToRemove == globalIndex(events, events[c])
             removedEvent == events[indexToRemove]
             id == Top.params.itineraryId
         IN /\ stack' = SetState(stack, Top.key,
                   [Top.st EXCEPT
                       !.removedEventTitles = RemovedTitles(@, removedEvent),
                       !.events = RemoveAt(events, indexToRemove),
                       !.pressed = Append(@, events[c])])
            /\ itineraries_store' =
                   IF id \in DOMAIN itineraries_store
                   THEN [itineraries_store EXCEPT ![id].itinerary =
                            SelectSeq(@, LAMBDA item : item.title # removedEvent.title)]
                   ELSE itineraries_store
    /\ UNCHANGED <<requests_store, uuidPool, http, planCalls, lastRecalc>>

\* the user presses the remove button of card c; `pressed` records the cards
\* pressed on this screen instance, in the order of the presses
handleRemoveEvent ==
    /\ Top.name = "Itinerary"
    /\ \E c \in DOMAIN Top.st.events :
         LET events == Top.st.events
             indexToRemove == globalIndex(events, events[c])
             removedEvent == events[indexToRemove]
         IN stack' = SetState(stack, Top.key,
                [Top.st EXCEPT
                    !.removedEventTitles = RemovedTitles(@, removedEvent),
                    !.events = RemoveAt(events, indexToRemove),
                    !.pressed = Append(@, events[c])])
    /\ UNCHANGED <<backendVars, lastRecalc>>

\* setShowRecalculateInput(!showRecalculateInput)
ToggleRecalculateInput ==
    /\ Top.name = "Itinerary"
    /\ stack' = SetState(stack, Top.key,
                         [Top.st EXCEPT !.showRecalculateInput = ~@])
    /\ UNCHANGED <<backendVars, lastRecalc>>

\* onChangeText={setAdditionalPrompt}
SetAdditionalPrompt ==
    /\ Top.name = "Itinerary"
    /\ Top.st.showRecalculateInput
    /\ \E text \in AdditionalPrompts :
         /\ Top.st.additionalPrompt # text
         /\ stack' = SetState(stack, Top.key, [Top.st EXCEPT !.additionalPrompt = text])
    /\ UNCHANGED <<backendVars, lastRecalc>>

\* the JSON body of ItineraryScreen.handleRecalculate
RecalculateBody(screen) ==
    [itinerary_id      |-> screen.params.itineraryId,
     additional_prompt |-> screen.st.additionalPrompt,
     excluded_events   |-> screen.st.removedEventTitles]

\* ItineraryScreen.handleRecalculate up to "await fetch": Loading is pushed,
\* the recalculation is posted, and the mount effect of the pushed Loading
\* posts its own generate request.
handleRecalculate ==
    /\ Top.name = "Itinerary"
    /\ Top.st.showRecalculateInput
    /\ CanSend(2)
    /\ LET params == [city |-> Top.params.city, budget |-> Undefined,
                      dates |-> Top.params.dates, preferences |-> Undefined,
                      isRecalculating |-> TRUE]
           ctx == [lastRecalc |-> lastRecalc, dates |-> Top.params.dates,
                   pressed |-> Top.st.pressed]
       IN /\ stack' = Navigate(stack, LoadingScreen(FreshKey, params))
          /\ http' = http \o
                <<Request(Top.key, "recalculate-itinerary", RecalculateBody(Top), ctx),
                  Request(FreshKey, "generate-itinerary", GenerateBody(params),
                          [lastRecalc |-> lastRecalc])>>
    /\ UNCHANGED <<itineraries_store, requests_store, uuidPool, planCalls, lastRecalc>>

\* the dates-from-the-closure-first variant of the replacement's params
RecalculatedItineraryParams_closureDates(data, dates) ==
    [itinerary   |-> data.events,
     itineraryId |-> data.itinerary_id,
     totalCost   |-> data.total_cost,
     city        |-> CityString(<<data.city>>),
     dates       |-> dates,
     summary     |-> data.summary]

\* navigation.replace('Itinerary', {...}) of ItineraryScreen.handleRecalculate
RecalculatedItineraryParams(data, dates) ==
    [itinerary   |-> data.events,
     itineraryId |-> data.itinerary_id,
     totalCost   |-> data.total_cost,
     city        |-> CityString(<<data.city>>),
     dates       |-> IF "dates" \in DOMAIN data THEN Arr(data.dates) ELSE dates,
     summary     |-> data.summary]

\* ItineraryScreen.handleRecalculate after "await fetch"
RecalculateResponseArrives(i) ==
    /\ http[i].path = "recalculate-itinerary"
    /\ http[i].from # 0
    /\ http[i].pc = "done"
    /\ http' = [http EXCEPT ![i] = Consumed]
    /\ IF http[i].status = 200
       THEN /\ stack' = Replace(stack,
                   ItineraryScreen(FreshKey,
                       RecalculatedItineraryParams(http[i].resp, http[i].ctx.dates)))
                    /\ lastRecalc' = http[i].resp.itinerary_id
       ELSE /\ stack' = GoBack(stack)
            /\ UNCHANGED lastRecalc
    /\ UNCHANGED <<itineraries_store, requests_store, uuidPool, planCalls>>

\* ItineraryScreen.handleExportICS: Linking.openURL(`${API_BASE_URL}/export-ics/${itineraryId}`)
handleExportICS ==
    /\ Top.name = "Itinerary"
    /\ CanSend(1)
    /\ http' = Append(http, Request(Top.key, "export-ics",
                                    [itinerary_id |-> Top.params.itineraryId],
                                    [lastRecalc |-> lastRecalc,
                                     pressed |-> Top.st.pressed]))
    /\ UNCHANGED <<itineraries_store, requests_store, uuidPool, planCalls, clientVars>>

\* ItineraryScreen.handleViewMap, and the geocode request the map screen
\* posts when it mounts
handleViewMap ==
    /\ Top.name = "Itinerary"
    /\ CanSend(1)
    /\ LET params == [itineraryId |-> Top.params.itineraryId, city |-> Top.params.city]
       IN /\ stack' = Navigate(stack, MapRoute(FreshKey, params))
          /\ http' = Append(http, [Request(FreshKey, "geocode-itinerary",
                                           [itinerary_id |-> params.itineraryId],
                                           [lastRecalc |-> lastRecalc,
                                            pressed |-> Top.st.pressed])
                                   EXCEPT !.pc = "external"])
    /\ UNCHANGED <<itineraries_store, requests_store, uuidPool, planCalls, lastRecalc>>

\* the map screen's close button: navigation.goBack()
MapGoBack ==
    /\ Top.name = "Map"
    /\ stack' = GoBack(stack)
    /\ UNCHANGED <<backendVars, lastRecalc>>

\* ItineraryScreen.handleStartOver; the itinerary on display is given up
handleStartOver ==
    /\ Top.name = "Itinerary"
    /\ stack' = PopToTop(stack)
    /\ lastRecalc' = 0
    /\ UNCHANGED backendVars

\* the string 'unknown'
Unknown == <<117, 110, 107, 110, 111, 119, 110>>

\* event.date || (dates && dates.length > 0 ? dates[0] : 'unknown')
EventDate(event, dates) ==
    IF "date" \in DOMAIN event /\ event.date # <<>> THEN event.date
    ELSE IF dates.type = "array" /\ Len(dates.items) > 0 THEN dates.items[1]
    ELSE Unknown

RECURSIVE GroupKeys(_, _)
\* Object.keys(grouped): the dates met by events.forEach, each once, in the
\* order they were first met
GroupKeys(events, dates) ==
    IF events = <<>> THEN <<>>
    ELSE SetAdd(GroupKeys(SubSeq(events, 1, Len(events) - 1), dates),
                EventDate(events[Len(events)], dates))

\* ItineraryScreen.getEventsByDate
getEventsByDate(events, dates) ==
    LET sortedDates == sort(GroupKeys(events, dates))
    IN [g \in DOMAIN sortedDates |->
          [date   |-> sortedDates[g],
           events |-> SelectSeq(events, LAMBDA e : EventDate(e, dates) = sortedDates[g])]]

(***************************************************************************)
(* Spec: one device and the backend.                                       *)
(***************************************************************************)
Init ==
    /\ InitBackend(1..MaxClientRequests)
    /\ stack = <<WizardRoot>>
    /\ lastRecalc = 0
    /\ wz = IdleWizard
    /\ mp = IdleMap

Next ==
    \/ StartPlanning /\ UNCHANGED <<wz, mp>>
    \/ \E i \in DOMAIN http : GenerateResponse(i) /\ UNCHANGED <<wz, mp>>
    \/ handleRetry /\ UNCHANGED <<wz, mp>>
    \/ handleGoBack /\ UNCHANGED <<wz, mp>>
    \/ handleRemoveEvent /\ UNCHANGED <<wz, mp>>
    \/ ToggleRecalculateInput /\ UNCHANGED <<wz, mp>>
    \/ SetAdditionalPrompt /\ UNCHANGED <<wz, mp>>
    \/ handleRecalculate /\ UNCHANGED <<wz, mp>>
    \/ \E i \in DOMAIN http : RecalculateResponseArrives(i) /\ UNCHANGED <<wz, mp>>
    \/ handleExportICS /\ UNCHANGED <<wz, mp>>
    \/ handleViewMap /\ UNCHANGED <<wz, mp>>
    \/ MapGoBack /\ UNCHANGED <<wz, mp>>
    \/ handleStartOver /\ UNCHANGED <<wz, mp>>
    \/ \E i \in DOMAIN http : GenerateSearch(i) /\ UNCHANGED <<clientVars, wz, mp>>
    \/ \E i \in DOMAIN http : GeneratePlan(i) /\ UNCHANGED <<clientVars, wz, mp>>
    \/ \E i \in DOMAIN http : ExportIcs(i) /\ UNCHANGED <<clientVars, wz, mp>>
    \/ \E i \in DOMAIN http : RecalculateSearch(i) /\ UNCHANGED <<clientVars, wz, mp>>
    \/ \E i \in DOMAIN http : RecalculatePlan(i) /\ UNCHANGED <<clientVars, wz, mp>>

Spec == Init /\ [][Next]_vars

(***************************************************************************)
(* The itinerary screen on its own: an instance showing any itinerary of   *)
(* up to MaxCards entries, two of which share title, start_time and date,  *)
(* and the remove buttons of its cards.                                    *)
(***************************************************************************)
MaxCards == 3
Dollar == 36

\* a second entry with the title and start_time of the concert
ConcertTwin ==
    [ItineraryItem(RawConcert) EXCEPT !.location = "9 Side St", !.estimated_cost = 40]

DisplayedItineraries ==
    SeqsUpTo({ItineraryItem(RawConcert), ConcertTwin, ItineraryItem(RawLunch)}, MaxCards)

\* the header's total, were it the totalCost of the route params
currentTotalCost_routeParam(screen) == screen.params.totalCost

RECURSIVE Reduce(_)
\* events.reduce((sum, event) => sum + (event.estimated_cost || 0), 0)
Reduce(events) ==
    IF events = <<>> THEN 0
    ELSE LET event == events[Len(events)]
         IN Reduce(SubSeq(events, 1, Len(events) - 1))
              + (IF "estimated_cost" \in DOMAIN event THEN event.estimated_cost ELSE 0)

currentTotalCost(screen) == Reduce(screen.st.events)

\* the header: {events.length} and ${currentTotalCost.toFixed(0)}
HeaderStats(screen) ==
    [events |-> Len(screen.st.events),
     cost   |-> <<Dollar>> \o String(currentTotalCost(screen))]

RECURSIVE Flatten(_)
Flatten(groups) ==
    IF groups = <<>> THEN <<>> ELSE Head(groups).events \o Flatten(Tail(groups))

\* the cards of the list: groupedEvents.map(group => group.events.map(...))
EventCards(screen) == Flatten(getEventsByDate(screen.st.events, screen.params.dates))

InitItinerary ==
    /\ InitBackend({})
    /\ \E itinerary \in DisplayedItineraries, params \in WizardParams :
         stack = <<WizardRoot,
                   ItineraryScreen(1,
                       GeneratedItineraryParams(
                           ItineraryResponse(1, itinerary, GenerateBody(params)).resp,
                           GenerateBody(params).city, GenerateBody(params).date))>>
    /\ lastRecalc = 0
    /\ wz = IdleWizard
    /\ mp = IdleMap

NextItinerary ==
    \/ handleRemoveEvent /\ UNCHANGED <<wz, mp>>

SpecItinerary == InitItinerary /\ [][NextItinerary]_vars

(***************************************************************************)
(* MapScreen: the geocoded tour.  mp is the state of one mounted instance; *)
(* pc is the position of fetchGeocodedLocations ("geocode": awaiting the   *)
(* geocode response, "route": awaiting fetchRoute, "idle": returned).      *)
(* An error of null is "".                                                 *)
(***************************************************************************)
MaxStops == 2
MaxTours == 2

Null == [type |-> "null"]
Point(lat, lng) == [type |-> "point", lat |-> lat, lng |-> lng]
GeocodedEvent(title, lat, lng) == [title |-> title, lat |-> lat, lng |-> lng]

GeocodedEvents ==
    {GeocodedEvent("Concert", Num(10), Num(20)),
     GeocodedEvent("Museum", Num(30), Num(40)),
     GeocodedEvent("Lunch", Null, Null),
     GeocodedEvent("Cafe", Num(50), Null)}

HasCoordinates(e) == e.lat # Null /\ e.lng # Null

RECURSIVE SumOf(_, _)
SumOf(f, idx) ==
    IF idx = {} THEN 0
    ELSE LET k == CHOOSE j \in idx : TRUE IN f[k] + SumOf(f, idx \ {k})

\* the centroid of the entries that resolved, or the city's when none did
Centroid(events) ==
    LET idx == {k \in DOMAIN events : HasCoordinates(events[k])}
        n == Cardinality(idx)
    IN IF n = 0 THEN Point(0, 0)
       ELSE Point(SumOf([k \in DOMAIN events |-> IF k \in idx THEN events[k].lat.value ELSE 0],
                        idx) \div n,
                  SumOf([k \in DOMAIN events |-> IF k \in idx THEN events[k].lng.value ELSE 0],
                        idx) \div n)

\* what POST /geocode-itinerary may come back with
GeocodeOutcomes ==
    {[kind |-> "ok", events |-> ev, center |-> Centroid(ev)] :
        ev \in UNION {[1..n -> GeocodedEvents] : n \in 0..MaxStops}}
    \cup {[kind |-> "not_ok", message |-> "Failed to geocode locations"],
          [kind |-> "threw", message |-> "Network request failed"]}

\* what POST /get-route may come back with: a route, an empty route, a body
\* without a route, a non-OK status, a network error
RouteOutcomes ==
    {[kind |-> "ok", route |-> <<[lat |-> 10, lng |-> 20], [lat |-> 15, lng |-> 35],
                                 [lat |-> 30, lng |-> 40]>>],
     [kind |-> "ok", route |-> <<>>],
     [kind |-> "no_route"],
     [kind |-> "not_ok"],
     [kind |-> "threw"]}

RouteFailed(outcome) == outcome.kind # "ok" \/ outcome.route = <<>>

\* MapScreen.fetchRoute: the value of routeCoordinates when it returns; every
\* failure is swallowed by its own try/catch
fetchRoute(outcome, routeCoordinates) ==
    IF outcome.kind = "ok"
    THEN [k \in DOMAIN outcome.route |->
            [latitude |-> outcome.route[k].lat, longitude |-> outcome.route[k].lng]]
    ELSE routeCoordinates

\* events.filter(e => e.lat !== null && e.lng !== null).map(...)
RECURSIVE StraightLine(_)
StraightLine(events) ==
    IF events = <<>> THEN <<>>
    ELSE LET e == Head(events)
         IN (IF HasCoordinates(e)
             THEN <<[latitude |-> e.lat.value, longitude |-> e.lng.value]>>
             ELSE <<>>) \o StraightLine(Tail(events))

\* the variant without the fallback
getPolylineCoordinates_routeOnly(m) == m.routeCoordinates

\* MapScreen.getPolylineCoordinates
getPolylineCoordinates(m) ==
    IF Len(m.routeCoordinates) > 0 THEN m.routeCoordinates
    ELSE StraightLine(m.events)

ErrorView(m) == ~m.loading /\ m.error # ""
MapView(m) == ~m.loading /\ m.error = ""

\* {getPolylineCoordinates().length > 1 && <Polyline coordinates={...}/>}
Polyline(m) ==
    IF MapView(m) /\ Len(getPolylineCoordinates(m)) > 1
    THEN getPolylineCoordinates(m) ELSE <<>>

\* the useState and useRef initial values, and the mount effect's
\* fetchGeocodedLocations at its first await; routeFailed and geocodeFailed
\* record what happened.  timers holds the argument of each pending
\* setTimeout(() => startFlyThrough(data.events), 1000); runs holds the calls
\* of startFlyThrough that are suspended at an await; abort is
\* flyThroughAbortRef.current; camera is the last animateCamera, and flown, per
\* call, the entries the camera was sent to; overviews counts the overviews a
\* call has shown and skipped tells that Skip Tour was pressed during it.
MapScreen ==
    [screen |-> "Map", pc |-> "geocode", events |-> <<>>, routeCoordinates |-> <<>>,
     center |-> Null, loading |-> TRUE, error |-> "",
     routeAsked |-> FALSE, routeFailed |-> FALSE, geocodeFailed |-> FALSE,
     isFlyingThrough |-> FALSE, currentFlyThroughIndex |-> -1,
     flyThroughComplete |-> FALSE, abort |-> FALSE,
     timers |-> <<>>, runs |-> <<>>, started |-> 0, camera |-> "none"]

\* fetchGeocodedLocations from the geocode response to "await fetchRoute()",
\* or through its catch
GeocodeResponds ==
    /\ mp.screen = "Map" /\ mp.pc = "geocode"
    /\ \E outcome \in GeocodeOutcomes :
         IF outcome.kind = "ok"
         THEN mp' = [mp EXCEPT !.events = outcome.events, !.center = outcome.center,
                               !.pc = "route"]
         ELSE mp' = [mp EXCEPT !.error = outcome.message, !.loading = FALSE,
                               !.pc = "idle", !.geocodeFailed = TRUE]

\* fetchRoute returns; fetchGeocodedLocations goes on to setLoading(false) and
\* setTimeout(() => startFlyThrough(data.events), 1000)
RouteResponds ==
    /\ mp.screen = "Map" /\ mp.pc = "route"
    /\ \E outcome \in RouteOutcomes :
         mp' = [mp EXCEPT !.routeCoordinates = fetchRoute(outcome, @),
                          !.loading = FALSE, !.pc = "idle",
                          !.routeAsked = TRUE, !.routeFailed = RouteFailed(outcome),
                          !.timers = Append(@, mp.events)]

\* the calls of startFlyThrough made and pending
Tours(m) == m.started + Len(m.timers)

\* Try Again on the error view: fetchGeocodedLocations once more
MapTryAgain ==
    /\ mp.screen = "Map" /\ mp.pc = "idle"
    /\ ErrorView(mp)
    /\ Tours(mp) < MaxTours
    /\ mp' = [mp EXCEPT !.pc = "geocode"]

\* MapScreen.handleClose; the effect's cleanup sets the abort flag
handleClose ==
    /\ mp.screen = "Map"
    /\ ~mp.loading
    /\ mp' = [mp EXCEPT !.screen = "closed", !.abort = TRUE]

\* eventList.filter((e) => e.lat !== null), the test of validEventsCount
ValidEvents_latOnly(eventList) == SelectSeq(eventList, LAMBDA e : e.lat # Null)

\* eventList.filter((e) => e.lat !== null && e.lng !== null)
ValidEvents(eventList) == SelectSeq(eventList, LAMBDA e : e.lat # Null /\ e.lng # Null)

\* {events.map((event, index) => { if (event.lat === null || event.lng === null)
\*   return null; return <Marker key={index} .../> })}: the markers by index
Markers(m) ==
    IF MapView(m)
    THEN {k \in DOMAIN m.events : ~ (m.events[k].lat = Null \/ m.events[k].lng = Null)}
    ELSE {}

\* isCurrentStop = currentFlyThroughIndex === index: the highlighted markers
HighlightedMarkers(m) == {k \in Markers(m) : m.currentFlyThroughIndex = k - 1}

\* the current-location card: shown while isFlyingThrough with an index within
\* events, it shows events[currentFlyThroughIndex]
CurrentLocationCard(m) ==
    IF MapView(m) /\ m.isFlyingThrough /\ m.currentFlyThroughIndex >= 0
          /\ m.currentFlyThroughIndex < Len(m.events)
    THEN <<m.events[m.currentFlyThroughIndex + 1]>>
    ELSE <<>>

\* mapRef.current is set while the MapView is rendered
MapRef(m) == m.screen = "Map" /\ MapView(m)

\* showOverview(coords): animateCamera unless there is no map, no coordinate
\* or the abort flag is set
showOverview(m, coords) ==
    IF MapRef(m) /\ Len(coords) > 0 /\ ~m.abort THEN "overview" ELSE m.camera

\* startFlyThrough(eventList) up to "await showOverview(coords)"
startFlyThrough(m, eventList) ==
    LET validEvents == ValidEvents(eventList)
    IN IF Len(validEvents) = 0 THEN m
       ELSE LET begun == [m EXCEPT !.abort = FALSE, !.isFlyingThrough = TRUE,
                                   !.flyThroughComplete = FALSE,
                                   !.currentFlyThroughIndex = -1,
                                   !.started = @ + 1]
            IN [begun EXCEPT
                  !.camera = showOverview(begun, validEvents),
                  !.runs = Append(@, [validEvents |-> validEvents, pc |-> "overview",
                                      i |-> 0, flown |-> <<>>,
                                      overviews |-> IF MapRef(begun) THEN 1 ELSE 0,
                                      skipped |-> FALSE])]

\* one pass of the loop up to "await flyToLocation(...)": flyToLocation moves
\* the camera unless there is no map or the abort flag is set
FlyTo(m, r, i) ==
    LET moves == MapRef(m) /\ ~m.abort
    IN [m EXCEPT !.currentFlyThroughIndex = i,
                 !.runs[r].pc = "fly", !.runs[r].i = i,
                 !.runs[r].flown = IF moves THEN Append(@, m.runs[r].validEvents[i + 1])
                                   ELSE @,
                 !.camera = IF moves THEN "location" ELSE @]

\* the end of startFlyThrough without its three state updates
FlyThroughEnds_noUpdate(m, r) == [m EXCEPT !.runs = RemoveAt(@, r)]

\* the end of startFlyThrough: setIsFlyingThrough(false), ...
FlyThroughEnds(m, r) ==
    [m EXCEPT !.isFlyingThrough = FALSE, !.flyThroughComplete = TRUE,
              !.currentFlyThroughIndex = -1, !.runs = RemoveAt(@, r)]

\* the setTimeout of fetchGeocodedLocations expires
FlyThroughTimer ==
    /\ mp.screen = "Map"
    /\ mp.timers # <<>>
    /\ mp' = startFlyThrough([mp EXCEPT !.timers = Tail(@)], Head(mp.timers))

\* the call r of startFlyThrough resumes after its await
FlyThroughResumes(r) ==
    /\ mp.screen = "Map"
    /\ LET run == mp.runs[r]
           n == Len(run.validEvents)
       IN mp' =
           CASE run.pc = "overview" ->
                  IF mp.abort THEN [mp EXCEPT !.runs = RemoveAt(@, r)]
                  ELSE FlyTo(mp, r, 0)
             [] run.pc = "fly" ->
                  IF mp.abort THEN FlyThroughEnds(mp, r)
                  ELSE [mp EXCEPT !.runs[r].pc = "pause"]
             [] run.pc = "pause" ->
                  IF run.i + 1 < n
                  THEN IF mp.abort THEN FlyThroughEnds(mp, r) ELSE FlyTo(mp, r, run.i + 1)
                  ELSE IF mp.abort THEN FlyThroughEnds(mp, r)
                       ELSE [mp EXCEPT !.runs[r].pc = "final",
                                       !.runs[r].overviews =
                                           IF MapRef(mp) THEN @ + 1 ELSE @,
                                       !.camera = showOverview(mp, run.validEvents)]
             [] run.pc = "final" -> FlyThroughEnds(mp, r)

\* Skip Tour, shown while isFlyingThrough; its showOverview runs with the
\* abort flag set
skipFlyThrough ==
    /\ MapRef(mp) /\ mp.isFlyingThrough
    /\ LET stopped == [mp EXCEPT !.abort = TRUE, !.isFlyingThrough = FALSE,
                                 !.flyThroughComplete = TRUE,
                                 !.currentFlyThroughIndex = -1,
                                 !.runs = [r \in DOMAIN @ |-> [@[r] EXCEPT !.skipped = TRUE]]]
       IN mp' = [stopped EXCEPT !.camera = showOverview(stopped, ValidEvents(mp.events))]

\* Replay Tour, shown once flyThroughComplete && !isFlyingThrough
replayFlyThrough ==
    /\ MapRef(mp) /\ mp.flyThroughComplete /\ ~mp.isFlyingThrough
    /\ Tours(mp) < MaxTours
    /\ mp' = startFlyThrough(mp, mp.events)

InitMap ==
    /\ InitBackend({})
    /\ stack = NoScreens /\ lastRecalc = 0
    /\ wz = IdleWizard
    /\ mp = MapScreen

NextMap ==
    \/ GeocodeResponds /\ UNCHANGED <<backendVars, clientVars, wz>>
    \/ RouteResponds /\ UNCHANGED <<backendVars, clientVars, wz>>
    \/ MapTryAgain /\ UNCHANGED <<backendVars, clientVars, wz>>
    \/ handleClose /\ UNCHANGED <<backendVars, clientVars, wz>>
    \/ FlyThroughTimer /\ UNCHANGED <<backendVars, clientVars, wz>>
    \/ \E r \in DOMAIN mp.runs : FlyThroughResumes(r) /\ UNCHANGED <<backendVars, clientVars, wz>>
    \/ skipFlyThrough /\ UNCHANGED <<backendVars, clientVars, wz>>
    \/ replayFlyThrough /\ UNCHANGED <<backendVars, clientVars, wz>>

SpecMap == InitMap /\ [][NextMap]_vars

\* the awaits of startFlyThrough are timers and camera animations: they resolve
FlyThroughStep ==
    \E r \in DOMAIN mp.runs : FlyThroughResumes(r) /\ UNCHANGED <<backendVars, clientVars, wz>>

NextMapLive ==
    \/ GeocodeResponds /\ UNCHANGED <<backendVars, clientVars, wz>>
    \/ RouteResponds /\ UNCHANGED <<backendVars, clientVars, wz>>
    \/ MapTryAgain /\ UNCHANGED <<backendVars, clientVars, wz>>
    \/ handleClose /\ UNCHANGED <<backendVars, clientVars, wz>>
    \/ FlyThroughTimer /\ UNCHANGED <<backendVars, clientVars, wz>>
    \/ FlyThroughStep
    \/ skipFlyThrough /\ UNCHANGED <<backendVars, clientVars, wz>>
    \/ replayFlyThrough /\ UNCHANGED <<backendVars, clientVars, wz>>

SpecMapLive == InitMap /\ [][NextMapLive]_vars /\ WF_vars(FlyThroughStep)

(***************************************************************************)
(* AerialViewScreen: the aerial tour.  mp is the state of one mounted      *)
(* instance; lookups holds the calls of fetchAerialVideos, each with its   *)
(* local `videos`, the index i of the entry whose response it awaits, the  *)
(* indices it has asked for, in order, and the answers it got.  Objects    *)
(* keyed by index are functions on the indices set so far (1-based).       *)
(***************************************************************************)
MaxLookups == 2

AerialEvent(title, location) == [title |-> title, location |-> location]

\* the entries of a geocode response; the last has no location
AerialEvents ==
    {AerialEvent("Concert", "1 Main St"), AerialEvent("Museum", "2 Park Ave"),
     AerialEvent("Walk", "")}

AerialGeocodeOutcomes ==
    {[kind |-> "ok", events |-> ev] :
        ev \in UNION {[1..n -> AerialEvents] : n \in 0..MaxStops}}
    \cup {[kind |-> "not_ok", message |-> "Failed to geocode locations"],
          [kind |-> "threw", message |-> "Network request failed"]}

\* what the Aerial View API may answer for one address
VideoOutcomes == {"404", "not_ok", "threw", "ACTIVE", "PROCESSING", "no_state"}

NotFound == [state |-> "NOT_FOUND"]

\* the loop body after the fetch, were its try/catch around the whole loop
Settle_catchOutside(outcome) ==
    IF outcome = "threw" THEN [video |-> NotFound, recorded |-> FALSE, goesOn |-> FALSE]
    ELSE [video |-> IF outcome \in {"ACTIVE", "PROCESSING"} THEN [state |-> outcome]
                    ELSE NotFound,
          recorded |-> TRUE, goesOn |-> TRUE]

\* the loop body after the fetch: videos[i] by the response, or by the catch;
\* the two setState calls follow in every case and the loop goes on
Settle(outcome) ==
    [video |-> IF outcome \in {"ACTIVE", "PROCESSING"} THEN [state |-> outcome]
               ELSE NotFound,
     recorded |-> TRUE, goesOn |-> TRUE]

AerialViewScreen ==
    [screen |-> "Aerial", pc |-> "geocode", events |-> <<>>, cityCenter |-> Null,
     loading |-> TRUE, error |-> "", currentIndex |-> 0,
     aerialVideos |-> <<>>, videoLoading |-> <<>>,
     lookups |-> <<>>, asked |-> 1, geocodeFailed |-> FALSE]

RECURSIVE RunLoop(_, _, _)
\* the loop of call l of fetchAerialVideos from index j up to its next await:
\* an entry without a location gets videos[i] and `continue`
RunLoop(m, l, j) ==
    LET eventList == m.lookups[l].eventList
    IN IF j > Len(eventList)
       THEN [m EXCEPT !.lookups[l].pc = "done", !.lookups[l].i = j]
       ELSE IF eventList[j].location = ""
            THEN RunLoop([m EXCEPT !.lookups[l].videos = (j :> NotFound) @@ @], l, j + 1)
            ELSE [m EXCEPT !.videoLoading = (j :> TRUE) @@ @,
                           !.lookups[l].pc = "request", !.lookups[l].i = j,
                           !.lookups[l].asked = Append(@, j)]

\* fetchAerialVideos(eventList) up to its first await
fetchAerialVideos(m, eventList) ==
    LET l == Len(m.lookups) + 1
    IN RunLoop([m EXCEPT !.lookups = Append(@, [eventList |-> eventList, pc |-> "start",
                                                  i |-> 1, videos |-> <<>>,
                                                  asked |-> <<>>, answers |-> <<>>])],
               l, 1)

\* AerialViewScreen.fetchGeocodedLocations after its fetch
AerialGeocodeResponds ==
    /\ mp.screen = "Aerial" /\ mp.pc = "geocode"
    /\ \E outcome \in AerialGeocodeOutcomes :
         IF outcome.kind = "ok"
         THEN mp' = fetchAerialVideos(
                       [mp EXCEPT !.events = outcome.events, !.cityCenter = Point(0, 0),
                                  !.loading = FALSE, !.pc = "idle"],
                       outcome.events)
         ELSE mp' = [mp EXCEPT !.error = outcome.message, !.loading = FALSE,
                               !.pc = "idle", !.geocodeFailed = TRUE]

\* the Aerial View request of call l is answered, or throws
VideoResponds(l) ==
    /\ mp.screen = "Aerial"
    /\ mp.lookups[l].pc = "request"
    /\ \E outcome \in VideoOutcomes :
         LET i == mp.lookups[l].i
             settled == Settle(outcome)
             answered == [mp EXCEPT !.lookups[l].answers = Append(@, outcome)]
             after == IF settled.recorded
                      THEN [answered EXCEPT
                                      !.lookups[l].videos = (i :> settled.video) @@ @,
                                      !.videoLoading = (i :> FALSE) @@ @,
                                      !.aerialVideos = (i :> settled.video) @@ @]
                      ELSE answered
         IN mp' = IF settled.goesOn THEN RunLoop(after, l, i + 1)
                  ELSE [after EXCEPT !.lookups[l].pc = "done"]

\* Try Again on the error view: fetchGeocodedLocations once more
AerialTryAgain ==
    /\ mp.screen = "Aerial" /\ mp.pc = "idle"
    /\ ErrorView(mp)
    /\ mp.asked <= MaxLookups
    /\ mp' = [mp EXCEPT !.pc = "geocode", !.asked = @ + 1]

\* AerialViewScreen.handleClose
AerialClose ==
    /\ mp.screen = "Aerial"
    /\ ~mp.loading
    /\ mp' = [mp EXCEPT !.screen = "closed"]

InitAerial ==
    /\ InitBackend({})
    /\ stack = NoScreens /\ lastRecalc = 0
    /\ wz = IdleWizard
    /\ mp = AerialViewScreen

\* a request to the Aerial View API settles
VideoStep ==
    \E l \in DOMAIN mp.lookups : VideoResponds(l) /\ UNCHANGED <<backendVars, clientVars, wz>>

NextAerial ==
    \/ AerialGeocodeResponds /\ UNCHANGED <<backendVars, clientVars, wz>>
    \/ VideoStep
    \/ AerialTryAgain /\ UNCHANGED <<backendVars, clientVars, wz>>
    \/ AerialClose /\ UNCHANGED <<backendVars, clientVars, wz>>

SpecAerial == InitAerial /\ [][NextAerial]_vars /\ WF_vars(VideoStep)

(***************************************************************************)
(* The input screens: Budget, DatePicker, Preferences, AdditionalPrefer-   *)
(* ences, and the request Loading posts when it mounts.  wz is the state   *)
(* of the screen in front together with the route params handed along; the *)
(* calendar state of the date picker is dropped once it is left behind.    *)
(***************************************************************************)
MaxSelected == 2        \* dates selected at a time
MaxMonthsAhead == 12    \* how far ahead of today the calendar is paged

MIN_BUDGET == 0
MAX_BUDGET == 1000
STEP == 25
\* Dimensions.get('window').width of the device
WindowWidth == 400
SLIDER_WIDTH == WindowWidth - 80

\* Math.round(rawBudget / STEP) * STEP for rawBudget =
\* (newPosition / SLIDER_WIDTH) * MAX_BUDGET, in exact arithmetic
SnappedBudget(moveX) ==
    LET clamped == moveX - 40
        newPosition == IF clamped < 0 THEN 0
                       ELSE IF clamped > SLIDER_WIDTH THEN SLIDER_WIDTH ELSE clamped
    IN ((2 * newPosition * MAX_BUDGET + SLIDER_WIDTH * STEP)
            \div (2 * SLIDER_WIDTH * STEP)) * STEP

WizardCities == {CityObject("Providence", "RI")}
NoRequest == [sent |-> FALSE]

\* BudgetScreen as it mounts: useState(100)
BudgetScreen(city) ==
    [screen |-> "Budget", city |-> city, budget |-> 100,
     selectedMonth |-> TodayMonth, selectedYear |-> TodayYear,
     selectedDates |-> <<>>, dates |-> <<>>,
     selectedPreferences |-> <<>>, selectedLabels |-> <<>>,
     additionalText |-> "", request |-> NoRequest]

\* panResponder: onPanResponderMove / onPanResponderRelease
onPanResponderMove ==
    /\ wz.screen = "Budget"
    /\ \E moveX \in 0..WindowWidth :
         /\ SnappedBudget(moveX) # wz.budget
         /\ wz' = [wz EXCEPT !.budget = SnappedBudget(moveX)]

\* BudgetScreen.handleNext; DatePickerScreen mounts on today's month
BudgetScreen_handleNext ==
    /\ wz.screen = "Budget"
    /\ wz' = [wz EXCEPT !.screen = "DatePicker"]

LeapYear(year) == (year % 4 = 0 /\ year % 100 # 0) \/ year % 400 = 0

\* new Date(year, month + 1, 0).getDate()
getDaysInMonth(month, year) ==
    IF month = 1 THEN (IF LeapYear(year) THEN 29 ELSE 28)
    ELSE IF month \in {3, 5, 8, 10} THEN 30 ELSE 31

\* new Date(selectedYear, selectedMonth, day) < todayStart
isPastDate(year, month, day) ==
    \/ year < TodayYear
    \/ year = TodayYear /\ month < TodayMonth
    \/ year = TodayYear /\ month = TodayMonth /\ day < TodayDay

MonthsAhead(year, month) == (year - TodayYear) * 12 + (month - TodayMonth)
InCalendar(year, month) == MonthsAhead(year, month) \in 0..MaxMonthsAhead

\* the month before, without the wrap into the year before
PreviousMonth_noWrap(selectedMonth, selectedYear) ==
    [month |-> selectedMonth - 1, year |-> selectedYear]

\* the month and year handlePreviousMonth sets
PreviousMonth(selectedMonth, selectedYear) ==
    IF selectedMonth = 0 THEN [month |-> 11, year |-> selectedYear - 1]
    ELSE [month |-> selectedMonth - 1, year |-> selectedYear]

handlePreviousMonth ==
    /\ wz.screen = "DatePicker"
    /\ LET to == PreviousMonth(wz.selectedMonth, wz.selectedYear)
       IN /\ InCalendar(to.year, to.month)
          /\ wz' = [wz EXCEPT !.selectedMonth = to.month, !.selectedYear = to.year]

handleNextMonth ==
    /\ wz.screen = "DatePicker"
    /\ LET month == IF wz.selectedMonth = 11 THEN 0 ELSE wz.selectedMonth + 1
           year == IF wz.selectedMonth = 11 THEN wz.selectedYear + 1 ELSE wz.selectedYear
       IN /\ InCalendar(year, month)
          /\ wz' = [wz EXCEPT !.selectedMonth = month, !.selectedYear = year]

handlePreviousYear ==
    /\ wz.screen = "DatePicker"
    /\ InCalendar(wz.selectedYear - 1, wz.selectedMonth)
    /\ wz' = [wz EXCEPT !.selectedYear = @ - 1]

handleNextYear ==
    /\ wz.screen = "DatePicker"
    /\ InCalendar(wz.selectedYear + 1, wz.selectedMonth)
    /\ wz' = [wz EXCEPT !.selectedYear = @ + 1]

\* the day cells the user taps
TapDays == {1, 10}

\* a day cell is pressed: disabled={isPastDate}, else handleDateSelect(day)
handleDateSelect ==
    /\ wz.screen = "DatePicker"
    /\ \E day \in TapDays :
         LET dateString == createDateString(wz.selectedYear, wz.selectedMonth, day)
         IN /\ day <= getDaysInMonth(wz.selectedMonth, wz.selectedYear)
            /\ ~isPastDate(wz.selectedYear, wz.selectedMonth, day)
            /\ IF SetHas(wz.selectedDates, dateString)
               THEN wz' = [wz EXCEPT !.selectedDates = SetDelete(@, dateString)]
               ELSE /\ Len(wz.selectedDates) < MaxSelected
                    /\ wz' = [wz EXCEPT !.selectedDates = SetAdd(@, dateString)]

\* DatePickerScreen.handleNext
DatePickerScreen_handleNext ==
    /\ wz.screen = "DatePicker"
    /\ Len(wz.selectedDates) > 0
    /\ LET datesArray == sort(wz.selectedDates)
       IN wz' = [wz EXCEPT !.screen = "Preferences", !.dates = datesArray,
                           !.selectedMonth = TodayMonth, !.selectedYear = TodayYear,
                           !.selectedDates = <<>>]

\* the options the user taps, with label.split(' ').slice(1).join(' ')
PreferenceLabels == [music |-> "Music & Concerts"]

\* PreferencesScreen.togglePreference
togglePreference ==
    /\ wz.screen = "Preferences"
    /\ \E id \in DOMAIN PreferenceLabels :
         wz' = [wz EXCEPT !.selectedPreferences =
                   IF \E k \in DOMAIN @ : @[k] = id
                   THEN SelectSeq(@, LAMBDA p : p # id) ELSE Append(@, id)]

\* PreferencesScreen.handleNext: the labels of the selection, to be joined by ', '
PreferencesScreen_handleNext ==
    /\ wz.screen = "Preferences"
    /\ wz' = [wz EXCEPT !.screen = "AdditionalPreferences",
                        !.selectedLabels = [k \in DOMAIN wz.selectedPreferences |->
                                                PreferenceLabels[wz.selectedPreferences[k]]]]

\* AdditionalPreferences: the free text is typed
setAdditionalText ==
    /\ wz.screen = "AdditionalPreferences"
    /\ \E text \in AdditionalPrompts :
         /\ wz.additionalText # text
         /\ wz' = [wz EXCEPT !.additionalText = text]

\* what AdditionalPreferences hands to Loading
LoadingParams(w) ==
    [city |-> w.city, budget |-> Num(w.budget), dates |-> Arr(w.dates),
     preferences |-> Txt(MergePreferences(w.selectedLabels, w.additionalText)),
     isRecalculating |-> FALSE]

\* AdditionalPreferences' continue button: navigation.navigate('Loading', ...),
\* and Loading's mount effect posts the request
AdditionalPreferencesScreen_handleNext ==
    /\ wz.screen = "AdditionalPreferences"
    /\ wz' = [wz EXCEPT !.screen = "Loading",
                        !.request = [sent |-> TRUE, body |-> GenerateBody(LoadingParams(wz))]]

InitWizard ==
    /\ InitBackend({})
    /\ stack = NoScreens /\ lastRecalc = 0
    /\ \E city \in WizardCities : wz = BudgetScreen(city)
    /\ mp = IdleMap

NextWizard ==
    \/ onPanResponderMove /\ UNCHANGED <<backendVars, clientVars, mp>>
    \/ BudgetScreen_handleNext /\ UNCHANGED <<backendVars, clientVars, mp>>
    \/ handlePreviousMonth /\ UNCHANGED <<backendVars, clientVars, mp>>
    \/ handleNextMonth /\ UNCHANGED <<backendVars, clientVars, mp>>
    \/ handlePreviousYear /\ UNCHANGED <<backendVars, clientVars, mp>>
    \/ handleNextYear /\ UNCHANGED <<backendVars, clientVars, mp>>
    \/ handleDateSelect /\ UNCHANGED <<backendVars, clientVars, mp>>
    \/ DatePickerScreen_handleNext /\ UNCHANGED <<backendVars, clientVars, mp>>
    \/ togglePreference /\ UNCHANGED <<backendVars, clientVars, mp>>
    \/ PreferencesScreen_handleNext /\ UNCHANGED <<backendVars, clientVars, mp>>
    \/ setAdditionalText /\ UNCHANGED <<backendVars, clientVars, mp>>
    \/ AdditionalPreferencesScreen_handleNext /\ UNCHANGED <<backendVars, clientVars, mp>>

SpecWizard == InitWizard /\ [][NextWizard]_vars

(***************************************************************************)
(* Claims about the backend, checked under SpecBackend.                    *)
(***************************************************************************)
IsCreate(i) == http[i].path = "generate-itinerary" /\ http[i].status = 200

\* the sum of estimated_cost over the entries, written out index by index
ExpectedTotal(entries) ==
    LET f[k \in 0..Len(entries)] ==
            IF k = 0 THEN 0 ELSE f[k - 1] + entries[k].estimated_cost
    IN  f[Len(entries)]

\* entry k of the stored list is what the synthesizer put at position k
SameEntries(stored, planned) ==
    /\ Len(stored) = Len(planned)
    /\ \A k \in DOMAIN planned : \A fld \in DOMAIN planned[k] :
           stored[k][fld] = planned[k][fld]

\* C1: when a generate-itinerary request succeeds, the document stored under
\* the returned itinerary_id holds exactly the synthesized entries in their
\* order, the returned total_cost is the sum of their estimated_cost, and a
\* lookup by that id right then yields that same document.
C1_CreateThenGet ==
    [][\A i \in DOMAIN http :
          (http[i].path = "generate-itinerary" /\ http[i].status = 0
              /\ http'[i].status = 200)
          => LET r == http'[i].resp
                 id == r.itinerary_id
             IN  /\ id \in DOMAIN itineraries_store'
                 /\ SameEntries(itineraries_store'[id].itinerary, http'[i].planned)
                 /\ r.events = itineraries_store'[id].itinerary
                 /\ r.total_cost = ExpectedTotal(itineraries_store'[id].itinerary)
                 /\ export_ics(itineraries_store', id).status = 200
                 /\ export_ics(itineraries_store', id).resp.components = r.events]_vars

C1_Witness ==
    \E i \in DOMAIN http :
        /\ IsCreate(i)
        /\ Len(http[i].resp.events) = 2
        /\ http[i].resp.total_cost = 20
        /\ http[i].resp.events[2].title = "Lunch"

\* C2: whatever the order and interleaving of generate-itinerary requests, a
\* successful one is given an identifier no other successful one was given,
\* and the identifier it stores under held no document before.
C2_UniqueIds ==
    [][\A i \in DOMAIN http :
          (http[i].path = "generate-itinerary" /\ http[i].status = 0
              /\ http'[i].status = 200)
          => /\ http'[i].resp.itinerary_id \notin DOMAIN itineraries_store
             /\ \A j \in DOMAIN http :
                   (j # i /\ IsCreate(j))
                   => http[j].resp.itinerary_id # http'[i].resp.itinerary_id]_vars

C2_Witness ==
    /\ Len(http) = 2
    /\ IsCreate(1) /\ IsCreate(2)
    /\ Cardinality(DOMAIN itineraries_store) = 2

ReturnedIds ==
    {http[j].resp.itinerary_id :
        j \in {k \in DOMAIN http :
                 /\ http[k].status = 200
                 /\ http[k].path \in {"generate-itinerary", "recalculate-itinerary"}}}

\* C4: an export or a recalculation naming an itinerary_id that no successful
\* create returned is answered "not found" and leaves the store as it was.
C4_UnknownIdNotFound ==
    [][\A i \in DOMAIN http :
          (http[i].path \in {"export-ics", "recalculate-itinerary"}
              /\ http[i].pc = "recv" /\ http'[i].pc # "recv"
              /\ http[i].body.itinerary_id \notin ReturnedIds)
          => /\ http'[i].status = 404
             /\ http'[i].resp.detail = "Itinerary not found"
             /\ itineraries_store' = itineraries_store
             /\ requests_store' = requests_store]_vars

C4_Witness ==
    \E i, j \in DOMAIN http :
        /\ http[i].path = "export-ics" /\ http[i].status = 404
        /\ http[j].path = "recalculate-itinerary" /\ http[j].status = 404
        /\ http[j].resp.detail = "Itinerary not found"

(***************************************************************************)
(* Claims about the device and the backend together, checked under Spec.   *)
(***************************************************************************)
ItineraryRequests == {"export-ics", "geocode-itinerary", "recalculate-itinerary"}
FromDevice(i) == http[i].from # 0

\* C5: once a recalculation has succeeded, every export, map or recalculation
\* request the device sends for the itinerary carries the identifier that the
\* most recent recalculation response returned.
C5_CarriesLatestRecalcId ==
    \A i \in DOMAIN http :
        (/\ FromDevice(i)
         /\ http[i].path \in ItineraryRequests
         /\ http[i].ctx.lastRecalc # 0)
        => http[i].body.itinerary_id = http[i].ctx.lastRecalc

\* C6: a title whose card the user removed before recalculating is sent in
\* excluded_events, and the document the recalculation answers with has no
\* entry with that title.
C6_RemovedTitlesExcluded ==
    \A i \in DOMAIN http :
        (FromDevice(i) /\ http[i].path = "recalculate-itinerary")
        => /\ Titles(http[i].ctx.pressed) \subseteq Range(http[i].body.excluded_events)
           /\ http[i].status = 200
                => Titles(http[i].resp.events) \cap Titles(http[i].ctx.pressed) = {}

C6_Witness ==
    \E i \in DOMAIN http :
        /\ FromDevice(i) /\ http[i].path = "recalculate-itinerary"
        /\ http[i].ctx.pressed # <<>>
        /\ http[i].status = 200

\* the step in which the backend stores and answers recalculation i
Replans(i) ==
    /\ http[i].path = "recalculate-itinerary"
    /\ http[i].pc = "plan"
    /\ http'[i].status = 200

\* the step in which the device reads the successful answer to recalculation i
ReadsRecalculation(i) ==
    /\ http[i].path = "recalculate-itinerary"
    /\ FromDevice(i)
    /\ http[i].status = 200
    /\ http'[i] = Consumed

C8_RouteFailureFallsBack ==
    (mp.pc = "idle" /\ mp.routeAsked /\ mp.routeFailed)
    => /\ mp.error # "" => mp.geocodeFailed
       /\ ~mp.loading
       /\ MapView(mp) =>
            Polyline(mp) = IF Len(StraightLine(mp.events)) > 1
                           THEN StraightLine(mp.events) ELSE <<>>

C8_Witness ==
    /\ mp.pc = "idle" /\ mp.routeAsked /\ mp.routeFailed
    /\ MapView(mp)
    /\ Len(mp.events) = 2
    /\ Len(Polyline(mp)) = 2

\* the entries of a geocode response that have both coordinates, in order
Geocoded(events) ==
    SelectSeq(events, LAMBDA e : e.lat.type = "number" /\ e.lng.type = "number")

IsPrefix(s, t) == Len(s) <= Len(t) /\ s = SubSeq(t, 1, Len(s))

\* C17: when no geocode request of the screen has failed, the response leaves
\* the map on display whatever entries have null coordinates; the markers are
\* exactly the entries with both coordinates, the straight-line path is their
\* coordinates in order, and each fly-through has flown to a prefix of them,
\* all of them once it is on its final overview.
C17_NullCoordinatesLeftOut ==
    (mp.screen = "Map" /\ mp.pc = "idle" /\ ~mp.geocodeFailed)
    => /\ MapView(mp)
       /\ Markers(mp) = {k \in DOMAIN mp.events :
                            mp.events[k].lat.type = "number" /\ mp.events[k].lng.type = "number"}
       /\ StraightLine(mp.events) =
            [k \in DOMAIN Geocoded(mp.events) |->
                [latitude  |-> Geocoded(mp.events)[k].lat.value,
                 longitude |-> Geocoded(mp.events)[k].lng.value]]
       /\ \A r \in DOMAIN mp.runs :
            /\ IsPrefix(mp.runs[r].flown, Geocoded(mp.events))
            /\ mp.runs[r].pc = "final" => mp.runs[r].flown = Geocoded(mp.events)

\* a tour of two entries, one of them without coordinates, has flown to the
\* other and is on its final overview
C17_Witness ==
    /\ mp.screen = "Map" /\ mp.pc = "idle" /\ ~mp.geocodeFailed
    /\ Len(mp.events) = 2 /\ Len(Geocoded(mp.events)) = 1
    /\ Cardinality(Markers(mp)) = 1
    /\ \E r \in DOMAIN mp.runs :
          mp.runs[r].pc = "final" /\ Len(mp.runs[r].flown) = 1

\* what a call of startFlyThrough that was not skipped has shown so far
TourSoFar(run) ==
    CASE run.pc = "overview" -> run.overviews = 1 /\ run.flown = <<>>
      [] run.pc \in {"fly", "pause"} ->
            run.overviews = 1 /\ run.flown = SubSeq(Geocoded(mp.events), 1, run.i + 1)
      [] run.pc = "final" -> run.overviews = 2 /\ run.flown = Geocoded(mp.events)

FlyThroughOver ==
    ~mp.isFlyingThrough /\ mp.flyThroughComplete /\ mp.currentFlyThroughIndex = -1

\* C21: on a screen showing the map, a fly-through that is not skipped shows
\* the overview, flies to the geocoded entries one by one in itinerary order
\* and shows the overview again; the step in which it ends leaves
\* isFlyingThrough false, flyThroughComplete true and the index -1, and a
\* fly-through in progress leads to that state (or the screen is closed); a
\* start with no geocoded entry changes no state.
C21_FlyThroughRunsToTheEnd ==
    /\ [](mp.screen = "Map" /\ ~mp.geocodeFailed
            => \A r \in DOMAIN mp.runs : ~mp.runs[r].skipped => TourSoFar(mp.runs[r]))
    /\ [][ /\ \A r \in DOMAIN mp.runs :
                (~mp.runs[r].skipped /\ mp'.screen = "Map" /\ mp'.runs = RemoveAt(mp.runs, r))
                    => /\ mp.runs[r].pc = "final"
                       /\ FlyThroughOver'
           /\ (mp.timers # <<>> /\ mp'.timers = Tail(mp.timers)
                 /\ Geocoded(Head(mp.timers)) = <<>>)
                    => mp' = [mp EXCEPT !.timers = Tail(@)]
         ]_vars
    /\ (mp.screen = "Map" /\ mp.isFlyingThrough) ~> (mp.screen # "Map" \/ FlyThroughOver)

\* a tour of two geocoded entries that was never skipped is on its final
\* overview
C21_Witness ==
    /\ mp.screen = "Map" /\ ~mp.geocodeFailed
    /\ \E r \in DOMAIN mp.runs :
          /\ ~mp.runs[r].skipped /\ mp.runs[r].pc = "final"
          /\ Len(mp.runs[r].flown) = 2 /\ mp.runs[r].overviews = 2

\* Skip Tour is pressed in this step: the abort flag is set on a screen that
\* stays open
SkipPressed == mp.screen = "Map" /\ mp'.screen = "Map" /\ ~mp.abort /\ mp'.abort

\* C22: pressing Skip Tour during a fly-through leaves isFlyingThrough false,
\* flyThroughComplete true and the index -1, and the camera's last move is
\* then the overview of the geocoded locations.
C22_SkipShowsOverview ==
    [][ (SkipPressed /\ mp.isFlyingThrough)
            => FlyThroughOver' /\ mp'.camera = "overview" ]_vars

\* C26: a fly-through on which Skip Tour was pressed makes, once a newer one
\* has started, no camera move and no update of isFlyingThrough,
\* flyThroughComplete or currentFlyThroughIndex when it resumes.
C26_SkippedTourStaysQuiet ==
    [][ \A r \in DOMAIN mp.runs :
          (mp.runs[r].skipped /\ r < Len(mp.runs) /\ FlyThroughResumes(r))
             => /\ mp'.isFlyingThrough = mp.isFlyingThrough
                /\ mp'.flyThroughComplete = mp.flyThroughComplete
                /\ mp'.currentFlyThroughIndex = mp.currentFlyThroughIndex
                /\ mp'.camera = mp.camera
                /\ Len(mp'.runs) = Len(mp.runs)
                      => mp'.runs[r].flown = mp.runs[r].flown
      ]_vars

\* the only fly-through under way is at one of its stops
AtStop ==
    /\ mp.screen = "Map" /\ MapView(mp) /\ mp.isFlyingThrough
    /\ Len(mp.runs) = 1
    /\ mp.runs[1].pc \in {"fly", "pause"}
    /\ ~mp.runs[1].skipped

\* C27: while the fly-through is at stop i, the current-location card shows
\* the entry the camera was sent to, and the highlighted marker is the marker
\* of that entry and no other.
C27_CardAndMarkerFollowCamera ==
    AtStop =>
        LET run == mp.runs[1]
            target == run.flown[Len(run.flown)]
        IN /\ CurrentLocationCard(mp) = <<target>>
           /\ \A k \in HighlightedMarkers(mp) : mp.events[k] = target
           /\ HighlightedMarkers(mp) # {}

\* C28 (map screen): when a geocode request answers OK and its route request
\* has returned, the screen shows the map and not the error view, also when
\* the request was made by Try Again after a failure.
C28_RetryLeavesErrorView ==
    [][ (mp.screen = "Map" /\ mp.pc = "route" /\ mp'.pc = "idle")
           => MapView(mp') /\ ~ErrorView(mp') ]_vars

(***************************************************************************)
(* Claims about the aerial tour, checked under SpecAerial.                 *)
(***************************************************************************)
LookupsOver ==
    /\ mp.screen = "Aerial" /\ mp.pc = "idle" /\ mp.lookups # <<>>
    /\ \A l \in DOMAIN mp.lookups : mp.lookups[l].pc = "done"

\* the indices below n of the entries that have a location, in order
RECURSIVE Located(_, _)
Located(eventList, n) ==
    IF n = 0 THEN <<>>
    ELSE Located(eventList, n - 1) \o
            (IF eventList[n].location # "" THEN <<n>> ELSE <<>>)

BudgetOptions == {"$0", "$1-$50", "$50-$150", "$150-$300", "$300-$500", "$500+"}

\* C9: the generate request carries a budget that is one of the enumerated
\* descriptors, whatever multiple of 25 from 0 to 1000 the slider was left at.
C9_BudgetIsEnumerated ==
    wz.request.sent => wz.request.body.budget \in BudgetOptions

\* the dates a request body carries
DatesCarried(body) ==
    IF "dates" \in DOMAIN body THEN Range(body.dates) ELSE {body.date}

\* C10: the generate request carries every date that was selected in the
\* date picker and handed on by its handleNext.
C10_AllSelectedDatesSent ==
    wz.request.sent => Range(wz.dates) \subseteq DatesCarried(wz.request.body)

\* the fields of a string between separators: s.split(sep)
RECURSIVE Fields(_, _, _)
Fields(s, sep, field) ==
    IF s = <<>> THEN <<field>>
    ELSE IF Head(s) = sep THEN <<field>> \o Fields(Tail(s), sep, <<>>)
    ELSE Fields(Tail(s), sep, Append(field, Head(s)))

RECURSIVE NumberOf(_)
\* the number a string of decimal digits denotes
NumberOf(digits) ==
    IF digits = <<>> THEN 0
    ELSE NumberOf(SubSeq(digits, 1, Len(digits) - 1)) * 10
            + (digits[Len(digits)] - Digit0)

\* the calendar day a date string denotes, as year * 10000 + month * 100 + day
DayOf(dateString) ==
    LET f == Fields(dateString, Hyphen, <<>>)
    IN NumberOf(f[1]) * 10000 + NumberOf(f[2]) * 100 + NumberOf(f[3])

\* the step in which the date picker navigates on
PickerNavigates == wz.screen = "DatePicker" /\ wz'.screen # "DatePicker"

\* C11: when the date picker hands its dates on, after any toggles and month
\* or year paging, at least one date is selected and the list handed on holds
\* exactly the selected dates, each once, in ascending chronological order.
C11_DatesHandedOnSorted ==
    [][PickerNavigates =>
          /\ Len(wz.selectedDates) > 0
          /\ Len(wz'.dates) = Len(wz.selectedDates)
          /\ Range(wz'.dates) = Range(wz.selectedDates)
          /\ \A i, j \in DOMAIN wz'.dates :
                i < j => DayOf(wz'.dates[i]) < DayOf(wz'.dates[j])
      ]_vars

C11_Witness ==
    /\ wz.screen = "Preferences"
    /\ Len(wz.dates) = 2
    /\ DayOf(wz.dates[1]) \div 100 # DayOf(wz.dates[2]) \div 100

(***************************************************************************)
(* More claims about the device, checked under Spec.                       *)
(***************************************************************************)
\* the itinerary screens that a generate response put on the stack
AfterGenerate(screen) == screen.name = "Itinerary" /\ "date" \in DOMAIN screen.params

\* C12: on an itinerary screen reached after a generate request every group
\* of entries is headed by a requested date, and an entry without a date is
\* in the group of the first requested date.
C12_GroupedUnderRequestedDate ==
    \A k \in DOMAIN stack :
        AfterGenerate(stack[k]) =>
            LET groups == getEventsByDate(stack[k].st.events, stack[k].params.dates)
            IN \A g \in DOMAIN groups :
                 /\ groups[g].date # Unknown
                 /\ \A n \in DOMAIN groups[g].events :
                       "date" \notin DOMAIN groups[g].events[n]
                          => groups[g].date = stack[k].params.date


\* C13: an encoding holds exactly one calendar component per entry of the
\* document, in the document's order, and the uids of its components are
\* pairwise distinct and all different from the document's itinerary id.
C13_OneComponentPerEntry ==
    \A i \in DOMAIN http :
        Encoded(i) =>
            LET itinerary == itineraries_store[http[i].itinerary_id].itinerary
                components == http[i].out.ics_content.components
            IN /\ Len(components) = Len(itinerary)
               /\ http[i].out.event_count = Len(itinerary)
               /\ \A k \in DOMAIN components :
                     /\ components[k].summary = itinerary[k].title
                     /\ components[k].uid # http[i].itinerary_id
                     /\ \A l \in DOMAIN components :
                           components[k].uid = components[l].uid => k = l

C13_Witness ==
    \E i \in DOMAIN http :
        /\ Encoded(i)
        /\ Len(http[i].out.ics_content.components) = MaxComponents

\* C14: two encodings of the same stored document are identical in every
\* field of the output, the uid of each component included (the output
\* carries no generation timestamp).
C14_EncodingRepeatable ==
    \A i, j \in DOMAIN http :
        (Encoded(i) /\ Encoded(j) /\ http[i].itinerary_id = http[j].itinerary_id)
            => http[i].out.ics_content = http[j].out.ics_content

\* C18: every generate request a Loading screen sends carries a non-empty
\* city and a non-empty state, on whichever path the screen was entered.
C18_GenerateHasCityAndState ==
    \A i \in DOMAIN http :
        (http[i].path = "generate-itinerary" /\ http[i].from # 0)
            => http[i].body.city # "" /\ http[i].body.state # ""

\* C19: pressing the remove button of a card takes that entry, and no other,
\* out of the list at the place where it stood, leaves the other entries in
\* their order, and appends its title to the removed titles.
C19_RemovesThePressedCard ==
    [][ (Top.name = "Itinerary" /\ Len(Top.st.pressed') = Len(Top.st.pressed) + 1)
        => LET card == Top.st.pressed'[Len(Top.st.pressed')]
           IN /\ Top.st.removedEventTitles'
                    = Append(Top.st.removedEventTitles, card.title)
              /\ \E c \in DOMAIN Top.st.events :
                    /\ Top.st.events[c] = card
                    /\ Top.st.events' = [k \in 1..(Len(Top.st.events) - 1) |->
                           IF k < c THEN Top.st.events[k] ELSE Top.st.events[k + 1]]
      ]_vars

\* the sum of estimated_cost over a list of cards
CostOf(cards) == SumOf([k \in DOMAIN cards |-> cards[k].estimated_cost], DOMAIN cards)

Paged ==
    /\ wz.screen = "DatePicker" /\ wz'.screen = "DatePicker"
    /\ <<wz'.selectedMonth, wz'.selectedYear>> # <<wz.selectedMonth, wz.selectedYear>>

\* C23: paging the date picker to the previous or next month or year leaves
\* the selected dates as they are; the month shown is one of 0..11 and the
\* page moves by one month, into the adjacent year at either end, or by one
\* year.
C23_PagingKeepsSelection ==
    [][ Paged =>
          /\ wz'.selectedDates = wz.selectedDates
          /\ wz'.selectedMonth \in 0..11
          /\ (wz'.selectedYear * 12 + wz'.selectedMonth)
               - (wz.selectedYear * 12 + wz.selectedMonth) \in {-12, -1, 1, 12}
          /\ wz'.selectedYear # wz.selectedYear /\ wz'.selectedMonth # wz.selectedMonth
               => {wz.selectedMonth, wz'.selectedMonth} = {0, 11}
      ]_vars

\* two dates of different years are selected while a third page is shown,
\* reached backwards through the turn of the year
C23_Witness ==
    /\ wz.screen = "DatePicker"
    /\ Len(wz.selectedDates) = 2
    /\ DayOf(wz.selectedDates[1]) \div 10000 # DayOf(wz.selectedDates[2]) \div 10000
    /\ wz.selectedYear = TodayYear /\ wz.selectedMonth = TodayMonth

\* the requests a step adds
NewRequests == {i \in DOMAIN http' : i > Len(http)}

\* C25: the step that starts a recalculation posts one planning request,
\* POST /recalculate-itinerary, and the Loading screen it pushes (entered with
\* isRecalculating = true) posts no POST /generate-itinerary.
C25_RecalculationPostsOnce ==
    [][ (\E i \in NewRequests : http'[i].path = "recalculate-itinerary")
          => /\ Cardinality(NewRequests) = 1
             /\ \A i \in NewRequests : http'[i].path # "generate-itinerary"
      ]_vars

\* the step is a press of a remove button on the itinerary screen
RemovesCard ==
    /\ Top.name = "Itinerary"
    /\ Top'.name = "Itinerary" /\ Top'.key = Top.key
    /\ Len(Top'.st.pressed) = Len(Top.st.pressed) + 1

\* the step in which the backend answers export request i while the itinerary
\* screen that sent it is still the focused screen
ExportAnswered(i) ==
    /\ http[i].path = "export-ics"
    /\ http[i].pc = "recv" /\ http'[i].pc = "done"
    /\ Top.name = "Itinerary" /\ Top.key = http[i].from

\* the screen instance with this key has posted a recalculation
Recalculated(key) ==
    \E j \in DOMAIN http :
        http[j].path = "recalculate-itinerary" /\ http[j].from = key

\* C29: pressing a remove button sends no request and leaves the stores, the
\* stored document included, as they were; an export or map request that an
\* itinerary screen sends before it has posted a recalculation carries the
\* identifier the screen was opened with, the document stored under it still
\* has an entry for every removed card, and the export answered while that
\* screen is on display is that whole document, removed entries included.
C29_RemovalIsClientLocal ==
    [][ /\ RemovesCard => UNCHANGED backendVars
        /\ \A i \in NewRequests :
              (/\ Top.name = "Itinerary" /\ ~Recalculated(Top.key)
               /\ http'[i].path \in {"export-ics", "geocode-itinerary"})
              => /\ http'[i].body.itinerary_id = Top.params.itineraryId
                 /\ Top.params.itineraryId \in DOMAIN itineraries_store
                 /\ Titles(Top.st.pressed)
                       \subseteq Titles(itineraries_store[Top.params.itineraryId].itinerary)
        /\ \A i \in DOMAIN http :
              (ExportAnswered(i) /\ ~Recalculated(Top.key))
              => /\ http'[i].status = 200
                 /\ http'[i].resp.components
                       = itineraries_store[Top.params.itineraryId].itinerary
                 /\ Titles(http[i].ctx.pressed) \subseteq Titles(http'[i].resp.components)
                 /\ Titles(Top.params.itinerary) = Titles(http'[i].resp.components)
      ]_vars

\* an export sent after a removal has been answered with the removed entry
\* while its screen was on display, and the map was asked for after a removal
C29_Witness ==
    /\ \E i \in DOMAIN http :
          /\ http[i].path = "export-ics" /\ http[i].ctx.pressed # <<>>
          /\ http[i].status = 200
          /\ Titles(http[i].ctx.pressed) \subseteq Titles(http[i].resp.components)
    /\ \E j \in DOMAIN http :
          http[j].path = "geocode-itinerary" /\ http[j].ctx.pressed # <<>>

\* the generate requests a step adds for the screen instance `key`
NewGenerates(key) ==
    {i \in (Len(http) + 1)..Len(http') :
        http'[i].path = "generate-itinerary" /\ http'[i].from = key}

LoadingKeys(stk) == {stk[k].key : k \in {l \in DOMAIN stk : stk[l].name = "Loading"}}

\* Try Again is on display and belongs to the instance `key`
TryAgainShown(key) ==
    Top.name = "Loading" /\ Top.key = key /\ Top.st.error # ""

\* the response of a failed generate request is read in this step
FailureRead(i) ==
    /\ http[i].path = "generate-itinerary" /\ http[i].from # 0
    /\ http[i].pc = "done" /\ http[i].status # 200
    /\ http'[i] = Consumed

\* C15: a Loading screen instance issues one generate request when it is
\* entered and one per press of Try Again, and none otherwise (none in the
\* step that reads a failure); at most one generate request of an instance
\* is in flight; reading a failed response leaves the stack of screens as it
\* is and puts the instance, if still mounted, in the error state.
C15_GenerateOncePerEntryOrRetry ==
    [][ /\ \A key \in LoadingKeys(stack') \ LoadingKeys(stack) :
              Cardinality(NewGenerates(key)) = 1
        /\ \A key \in 1..(Len(http') + Len(stack') + 1) :
              /\ NewGenerates(key) # {} =>
                    /\ Cardinality(NewGenerates(key)) = 1
                    /\ \/ key \in LoadingKeys(stack') \ LoadingKeys(stack)
                       \/ TryAgainShown(key)
              /\ Cardinality({i \in DOMAIN http' :
                      http'[i].path = "generate-itinerary" /\ http'[i].from = key}) <= 1
        /\ \A i \in DOMAIN http :
              FailureRead(i) =>
                 /\ Len(http') = Len(http)
                 /\ [k \in DOMAIN stack' |-> <<stack'[k].name, stack'[k].key>>]
                       = [k \in DOMAIN stack |-> <<stack[k].name, stack[k].key>>]
                 /\ \A k \in DOMAIN stack' :
                       stack'[k].key = http[i].from =>
                          /\ stack'[k].name = "Loading"
                          /\ stack'[k].st.isLoading = FALSE
                          /\ stack'[k].st.error # ""
      ]_vars

\* a retried request has failed again: the error view is back on display
C15_Witness ==
    /\ Top.name = "Loading" /\ Top.st.error # "" /\ Top.st.isLoading = FALSE
    /\ Cardinality({i \in DOMAIN http : http[i] = Consumed}) >= 2
    /\ \A i \in DOMAIN http : http[i].from # Top.key

\* the synthesizer's output of request i has an item without a required field
Malformed(planned) ==
    \E k \in DOMAIN planned : ~ (RequiredFields \subseteq DOMAIN planned[k])

\* C16: when an item of the synthesizer's output lacks a required field, the
\* generate request ends with status 500 and the step stores nothing: the
\* store, the kept requests and the unused ids are as before.
C16_MalformedOutputIsFatal ==
    [][ \A i \in DOMAIN http :
          ( /\ i \in DOMAIN http'
            /\ http[i].path = "generate-itinerary"
            /\ http[i].pc = "plan" /\ http'[i].pc = "done"
            /\ Malformed(http'[i].planned) )
          => /\ http'[i].status = 500
             /\ itineraries_store' = itineraries_store
             /\ requests_store' = requests_store
             /\ uuidPool' = uuidPool
      ]_vars

\* a malformed output followed a well-formed one: one document is stored,
\* from the other request
C16_Witness ==
    \E i \in DOMAIN http :
        /\ http[i].path = "generate-itinerary" /\ http[i].pc = "done"
        /\ Malformed(http[i].planned)
        /\ \E k \in DOMAIN http[i].planned : ItineraryItemValid(http[i].planned[k])
        /\ Cardinality(DOMAIN itineraries_store) = 1

\* C28 (aerial tour): when a geocode request answers OK, the screen shows the
\* tour and not the error view, also when the request was made by Try Again
\* after a failure.
C28_AerialRetryLeavesErrorView ==
    [][ (mp.screen = "Aerial" /\ mp.pc = "geocode" /\ mp'.pc = "idle"
           /\ Len(mp'.lookups) > Len(mp.lookups))
           => MapView(mp') /\ ~ErrorView(mp') ]_vars
====
